---------------------------- MODULE Spec2Model ----------------------------
(***************************************************************************)
(* A model of the Castle Clash client: the field and message codec         *)
(* (io/natives.py, io/binstruct.py), the packet registry                   *)
(* (network/packets), the crypto session (network/crypto) and the network  *)
(* session (network/network_client.py).                                    *)
(*                                                                         *)
(* Bytes are the integers 0..255, byte strings are sequences of bytes,     *)
(* Python str values are sequences of code points.  Python values carry    *)
(* their type, because the codec dispatches on it: every value is a record *)
(* [t, v, size, unk] (type name, payload, declared size, CString unknown   *)
(* data).  An exception is the record [exc |-> <name>].                    *)
(***************************************************************************)
EXTENDS Integers, Sequences, FiniteSets, TLC

VARIABLES
    \* ---- packet registry (network/packets/__init__.py)
    messages,        \* CCMessageRegistry._messages: [client: name -> id, server: id -> name]
    cls_attrs,       \* kls._message_id / kls._encrypted set by client_message
    reg_call,        \* the last decorator application: direction, id, class
    reg_result,      \* its outcome: "none", "ok" or "ValueError"
    reg_prev,        \* messages as it was before the last decorator application
    \* ---- crypto session (network/crypto/__init__.py)
    des_cipher,      \* CryptoManager._des_cipher: NoCipher or the key of the DES object
    crypto_call,     \* the last CryptoManager call and its argument
    crypto_result,   \* what it returned (bytes) or raised
    \* ---- message codec (io/binstruct.py)
    codec_x,         \* the instance under test
    codec_bytes,     \* x.to_bytes(), or NotYet
    codec_y,         \* from_bytes(x.to_bytes()), or NotYet
    \* ---- field types (io/natives.py)
    nat_call,        \* the last call on a field type: constructor and to_bytes, or from_bytes
    nat_result,      \* what it returned or raised
    \* ---- a chat frame on its way to the log (GetWorldChat, handler_03f6)
    chat_frame,      \* the bytes of a 0x03f6 frame and the layout they were built to
    chat_packet,     \* GetWorldChat.from_bytes of them, or NotYet
    chat_lines,      \* the lines handler_03f6 logged for the packet, or NotYet
    \* ---- network session (network/network_client.py): NetworkClient's fields
    pending_buffer,  \* _pending_buffer
    lock_holder,     \* _pending_buffer_lock._locked: "none", or the task that holds it
    lock_waiters,    \* _pending_buffer_lock._waiters: the tasks waiting, first first
    shutdown_set,    \* _shutdown.is_set()
    tick_count,      \* _tick_count
    gs_authed,       \* _gs_authed
    last_recv_time,  \* _last_recv_time: 0, or 1 for the time of a read
    notified,        \* _notified
    login_key,       \* _login_key
    gs_login_resp,   \* init's gs_login_resp: what login_gs returned or raised, None before
    gs_extra,        \* login_gs's login_data beyond the bytes from_bytes decoded
    \* ---- the tasks: where each is suspended
    pc,              \* the main task: init, run_main_loop, shutdown
    rx_pc,           \* _receiver_task: "none" until created
    chat_pc,         \* _chat_task: "none" until created
    rx_data,         \* the receive task's local data while it waits for the lock
    \* ---- the environment
    config,          \* config.json
    writer,          \* the connection _writer belongs to, and whether it is closed
    stream,          \* the bytes the game server sends after its login response
    sent_frames,     \* the frames those bytes are made of
    rx_pos,          \* how many of them the receive task has read
    recv_age,        \* seconds since the last read, up to IdleSeconds + 1
    small_age,       \* seconds since the buffer last held more than 4 bytes, up to the same
    \* ---- what the session did
    wire,            \* one record per writer.write: connection, identifier, size, seq id
    last_frame,      \* the bytes of the last writer.write
    last_packet,     \* the packet they were made from, and the cipher at that time
    extracted,       \* the frames pick_message removed from the buffer, in order
    last_pick,       \* the pick_message attempt of the step just taken, or None
    handled,         \* the handler invocations: the lines handler_03f6 printed
    idle_fired       \* what the condition of lines 134-139 found when it held in the
                     \* step just taken, or None

registry_vars == <<messages, cls_attrs, reg_call, reg_result, reg_prev>>
crypto_vars == <<des_cipher, crypto_call, crypto_result>>
codec_vars == <<codec_x, codec_bytes, codec_y>>
natives_vars == <<nat_call, nat_result>>
chat_vars == <<chat_frame, chat_packet, chat_lines>>
session_vars ==
    <<pending_buffer, lock_holder, lock_waiters, shutdown_set, tick_count, gs_authed,
      last_recv_time, notified, login_key, pc, rx_pc, chat_pc, rx_data, config, writer,
      stream, sent_frames, rx_pos, recv_age, wire, last_frame, last_packet, extracted,
      last_pick, handled, gs_login_resp, small_age, idle_fired, gs_extra>>
vars == <<registry_vars, crypto_vars, codec_vars, session_vars, natives_vars, chat_vars>>

NotYet == [exc |-> "NotYet"]
Raise(name) == [exc |-> name]
IsExc(r) == "exc" \in DOMAIN r
Ok(v) == [val |-> v]

\* the rest of a computation after a call: F on what the call returned, or
\* the exception the call raised, which propagates
Then(r, F(_)) == IF IsExc(r) THEN r ELSE F(r.val)

(***************************************************************************)
(* Sequence helpers: Python slices and bytes methods.                      *)
(***************************************************************************)
Min(a, b) == IF a < b THEN a ELSE b

\* s[:n]
Take(s, n) == SubSeq(s, 1, Min(n, Len(s)))

\* s[n:]
Drop(s, n) == SubSeq(s, Min(n, Len(s)) + 1, Len(s))

\* n copies of b
Rep(b, n) == [i \in 1..n |-> b]

\* s.ljust(n, b"\x00")
Ljust(s, n) == IF Len(s) >= n THEN s ELSE s \o Rep(0, n - Len(s))

\* the indexes of the non-zero bytes of s
NonZeroAt(s) == {i \in 1..Len(s) : s[i] # 0}

\* max / min of a non-empty set of integers
MaxOf(S) == CHOOSE m \in S : \A o \in S : m >= o
MinOf(S) == CHOOSE m \in S : \A o \in S : m <= o

\* s.rstrip(b"\x00")
Rstrip(s) == IF NonZeroAt(s) = {} THEN <<>> ELSE SubSeq(s, 1, MaxOf(NonZeroAt(s)))

\* s.lstrip("\x00")
Lstrip(s) == IF NonZeroAt(s) = {} THEN <<>> ELSE SubSeq(s, MinOf(NonZeroAt(s)), Len(s))

\* s.strip("\x00")
Strip(s) == Lstrip(Rstrip(s))

\* the indexes of the zero bytes of s
ZeroAt(s) == {i \in 1..Len(s) : s[i] = 0}

\* value.split(b"\x00")[0]
SplitItem0(s) ==
    IF ZeroAt(s) = {} THEN s ELSE SubSeq(s, 1, MinOf(ZeroAt(s)) - 1)

\* value.split(b"\x00")[1]; IndexError when value holds no zero byte
SplitItem1(s) ==
    IF ZeroAt(s) = {} THEN Raise("IndexError")
    ELSE LET rest == Drop(s, MinOf(ZeroAt(s)))
         IN  Ok(SplitItem0(rest))

(***************************************************************************)
(* Little-endian integers: struct.pack / struct.unpack of H, I and Q.      *)
(***************************************************************************)
RECURSIVE PackLE(_, _)
PackLE(n, width) ==
    IF width = 0 THEN <<>> ELSE <<n % 256>> \o PackLE(n \div 256, width - 1)

RECURSIVE UnpackLE(_)
UnpackLE(b) ==
    IF Len(b) = 0 THEN 0 ELSE b[1] + 256 * UnpackLE(Tail(b))

(***************************************************************************)
(* UTF-8 and ASCII, for the code points U+0000..U+07FF: one byte below     *)
(* 0x80, two bytes from there on.                                          *)
(***************************************************************************)
RECURSIVE EncodeUtf8(_)
\* str.encode("utf-8"), by halves
EncodeUtf8(s) ==
    IF Len(s) = 0 THEN <<>>
    ELSE IF Len(s) = 1
         THEN (IF s[1] < 128 THEN <<s[1]>>
               ELSE <<192 + (s[1] \div 64), 128 + (s[1] % 64)>>)
    ELSE EncodeUtf8(Take(s, Len(s) \div 2)) \o EncodeUtf8(Drop(s, Len(s) \div 2))

IsCont(b) == b >= 128 /\ b < 192
IsLead(b) == b >= 194 /\ b < 224

\* every byte is ASCII, a lead byte followed by a continuation byte, or a
\* continuation byte that follows a lead byte
Utf8Valid(b) ==
    \A i \in 1..Len(b) :
        \/ b[i] < 128
        \/ IsLead(b[i]) /\ i < Len(b) /\ IsCont(b[i + 1])
        \/ IsCont(b[i]) /\ i > 1 /\ IsLead(b[i - 1])

RECURSIVE Utf8Chars(_)
\* the code points of valid UTF-8, by halves cut at a character boundary
Utf8Chars(b) ==
    IF Len(b) = 0 THEN <<>>
    ELSE IF Len(b) = 1 THEN <<b[1]>>
    ELSE IF Len(b) = 2 /\ b[1] >= 128 THEN <<(b[1] - 192) * 64 + (b[2] - 128)>>
    ELSE LET half == Len(b) \div 2
             cut == IF IsCont(b[half + 1]) THEN half + 1 ELSE half
         IN  Utf8Chars(Take(b, cut)) \o Utf8Chars(Drop(b, cut))

\* bytes.decode("utf-8"): the str, or UnicodeDecodeError
DecodeUtf8(b) ==
    IF Utf8Valid(b) THEN Ok(Utf8Chars(b))
    ELSE Raise("UnicodeDecodeError")

\* str.encode("ascii"): the bytes, or UnicodeEncodeError
EncodeAscii(s) ==
    IF \A i \in 1..Len(s) : s[i] < 128 THEN Ok(s)
    ELSE Raise("UnicodeEncodeError")

(***************************************************************************)
(* Python values, tagged with their type.                                  *)
(***************************************************************************)
PyVal(t, v, size, unk) == [t |-> t, v |-> v, size |-> size, unk |-> unk]
PyInt(n) == PyVal("int", n, 0, <<>>)
PyStr(s) == PyVal("str", s, 0, <<>>)
PyBytes(b) == PyVal("bytes", b, 0, <<>>)
PyList(l) == PyVal("list", l, 0, <<>>)

\* isinstance(val, str): SizedString and CString are subclasses of str
IsStr(val) == val.t \in {"str", "SizedString", "CString"}

\* isinstance(val, bytes): SizedBytes is a subclass of bytes
IsBytes(val) == val.t \in {"bytes", "SizedBytes"}

(***************************************************************************)
(* io/natives.py                                                           *)
(***************************************************************************)
\* SizedString(value, size), value a str
SizedString_new(value, size) ==
    IF Len(value) > size THEN Raise("ValueError")
    ELSE Ok(PyVal("SizedString", Ljust(value, size), size, <<>>))

\* SizedString.from_bytes(value, size)
SizedString_from_bytes(value, size) ==
    LET d == DecodeUtf8(value)
    IN  IF IsExc(d) THEN d ELSE SizedString_new(d.val, size)

\* SizedString.to_bytes(self)
SizedString_to_bytes(self) == PyBytes(EncodeUtf8(self.v))

\* SizedString.value(self)
SizedString_value(self) == PyStr(Rstrip(self.v))

\* SizedBytes(value, size), value a bytes
SizedBytes_new(value, size) ==
    IF Len(value) > size THEN Raise("ValueError")
    ELSE Ok(PyVal("SizedBytes", Ljust(value, size), size, <<>>))

\* SizedBytes.from_bytes(value, size)
SizedBytes_from_bytes(value, size) == SizedBytes_new(value, size)

\* SizedBytes.to_bytes(self)
SizedBytes_to_bytes(self) == self

\* SizedBytes.value(self)
SizedBytes_value(self) == PyBytes(Rstrip(self.v))

\* CString(value, expected_size), value a str; unknown_data starts empty
CString_new(value, expected_size) ==
    IF expected_size > 0 /\ Len(value) > expected_size THEN Raise("ValueError")
    ELSE Ok(PyVal("CString", value, expected_size, <<>>))

\* CString.from_bytes(value)
CString_from_bytes(value) ==
    LET item0 == SplitItem0(value)
        d == DecodeUtf8(item0)
        inst == IF IsExc(d) THEN d ELSE CString_new(d.val, Len(item0))
        item1 == SplitItem1(value)
    IN  IF IsExc(inst) THEN inst
        ELSE IF IsExc(item1) THEN item1
        ELSE Ok([inst.val EXCEPT !.unk = item1.val])

\* CString.to_bytes(self)
CString_to_bytes(self) == PyBytes(EncodeUtf8(self.v) \o <<0>>)

\* CString.value(self)
CString_value(self) == PyStr(Strip(self.v))

(***************************************************************************)
(* The message catalog: network/packets/client.py and server.py.  A field  *)
(* is its name, its annotation (the annotation of a sized field is an      *)
(* instance carrying the size) and whether it is an __init__ parameter.    *)
(* STRUCT_FORMAT is kept as its tokens: a repeat count (0 when absent) and *)
(* a type code; every format of the catalog starts with "<".               *)
(***************************************************************************)
Ann(t, size) == [t |-> t, size |-> size]
Field(name, ann) == [name |-> name, type |-> ann, init |-> TRUE]
NoInitField(name, ann) == [name |-> name, type |-> ann, init |-> FALSE]
Tok(count, code) == [count |-> count, code |-> code]

\* class CCMessage
CCMessageFields ==
    <<Field("message_size", Ann("u16", 0)), Field("message_id", Ann("u16", 0))>>

\* dataclasses.fields(cls), base class fields first
Fields(cls) ==
    CASE cls = "ConnectLoginServer" ->
           <<Field("client_version", Ann("u32", 0)), Field("user_id", Ann("u64", 0)),
             Field("auth_key", Ann("SizedString", 512)), Field("game_id", Ann("u32", 0)),
             Field("padding", Ann("SizedBytes", 8))>>
      [] cls = "ConnectGameServer" ->
           <<Field("unknown_1", Ann("u32", 0)), Field("user_id", Ann("u64", 0)),
             Field("login_key", Ann("SizedString", 156)),
             Field("client_sign", Ann("u32", 0)), Field("client_version", Ann("u32", 0))>>
      [] cls = "AckEncryptionResp" ->
           <<Field("seq_id", Ann("u32", 0)), Field("user_id", Ann("u64", 0)),
             Field("unknown_1", Ann("u32", 0)), Field("platform_lang_id", Ann("u32", 0))>>
      [] cls = "GameInitComplete" -> <<Field("seq_id", Ann("u32", 0))>>
      [] cls = "Active" -> <<Field("seq_id", Ann("u32", 0))>>
      [] cls = "GetSelectChat" ->
           <<Field("seq_id", Ann("u32", 0)), Field("channel_id", Ann("u32", 0))>>
      [] cls = "CCMessage" -> CCMessageFields
      [] cls = "RespLoginServerValidate" ->
           CCMessageFields \o
           <<Field("x_gs_port", Ann("u16", 0)), Field("unknown_1", Ann("u16", 0)),
             Field("user_id", Ann("u64", 0)), Field("x_gs_ip", Ann("SizedString", 32)),
             Field("login_key", Ann("SizedString", 89)),
             Field("gs_hostname", Ann("SizedString", 129)),
             Field("gs_port", Ann("u16", 0)), Field("padding", Ann("SizedBytes", 692))>>
      [] cls = "RespGameServerLoginResp" ->
           CCMessageFields \o
           <<Field("unknown_1", Ann("SizedBytes", 4)), Field("user_id", Ann("u64", 0)),
             Field("des_key", Ann("SizedBytes", 16))>>
      [] cls = "WorldChatMessage" ->
           <<Field("player_id", Ann("u64", 0)), Field("unknown_1", Ann("u64", 0)),
             Field("unknown_2", Ann("u32", 0)), Field("player_name", Ann("CString", 32)),
             Field("message", Ann("CString", 128)), Field("unknown_3", Ann("u32", 0))>>
      [] cls = "GetWorldChat" ->
           CCMessageFields \o
           <<Field("chat_type", Ann("u32", 0)), Field("new_message_count", Ann("u64", 0)),
             NoInitField("messages", Ann("list", 0))>>

\* cls.STRUCT_FORMAT
STRUCT_FORMAT(cls) ==
    CASE cls = "ConnectLoginServer" ->
           <<Tok(0, "I"), Tok(0, "Q"), Tok(512, "s"), Tok(0, "I"), Tok(8, "s")>>
      [] cls = "ConnectGameServer" ->
           <<Tok(0, "I"), Tok(0, "Q"), Tok(156, "s"), Tok(0, "I"), Tok(0, "I")>>
      [] cls = "AckEncryptionResp" -> <<Tok(0, "I"), Tok(0, "Q"), Tok(0, "I"), Tok(0, "I")>>
      [] cls = "GameInitComplete" -> <<Tok(0, "I")>>
      [] cls = "Active" -> <<Tok(0, "I")>>
      [] cls = "GetSelectChat" -> <<Tok(0, "I"), Tok(0, "I")>>
      [] cls = "CCMessage" -> <<Tok(0, "H"), Tok(0, "H")>>
      [] cls = "RespLoginServerValidate" ->
           <<Tok(0, "H"), Tok(0, "H"), Tok(0, "H"), Tok(0, "H"), Tok(0, "Q"), Tok(32, "s"),
             Tok(89, "s"), Tok(129, "s"), Tok(0, "H"), Tok(692, "s")>>
      [] cls = "RespGameServerLoginResp" ->
           <<Tok(0, "H"), Tok(0, "H"), Tok(4, "s"), Tok(0, "Q"), Tok(16, "s")>>
      [] cls = "WorldChatMessage" ->
           <<Tok(0, "Q"), Tok(0, "Q"), Tok(0, "I"), Tok(32, "s"), Tok(128, "s"), Tok(0, "I")>>
      [] cls = "GetWorldChat" -> <<Tok(0, "H"), Tok(0, "H"), Tok(0, "I"), Tok(0, "Q")>>

(***************************************************************************)
(* struct: calcsize, pack and unpack of one token.                         *)
(***************************************************************************)
CountVal(tok) == IF tok.count = 0 THEN 1 ELSE tok.count

CodeWidth(code) ==
    CASE code = "s" -> 1 [] code = "H" -> 2 [] code = "I" -> 4 [] code = "Q" -> 8

\* struct.calcsize(token)
CalcSize(tok) == CountVal(tok) * CodeWidth(tok.code)

RECURSIVE SumSizes(_)
SumSizes(tokens) ==
    IF Len(tokens) = 0 THEN 0 ELSE CalcSize(tokens[1]) + SumSizes(Tail(tokens))

\* struct.pack of one argument: "s" takes bytes, cut or zero-padded to the count;
\* an integer code takes an int in range (the model's integers stay below 2^31,
\* so only H has a reachable upper limit)
PackArg(tok, val) ==
    IF tok.code = "s"
    THEN IF IsBytes(val) THEN Ok(Ljust(Take(val.v, CountVal(tok)), CountVal(tok)))
         ELSE Raise("struct.error")
    ELSE IF val.t = "int" /\ val.v >= 0 /\ (tok.code = "H" => val.v < 65536)
         THEN Ok(PackLE(val.v, CodeWidth(tok.code)))
         ELSE Raise("struct.error")

(***************************************************************************)
(* io/binstruct.py: BinaryStruct.  An instance is [cls, f]: its class and  *)
(* its attributes, a function from the names of the attributes that are    *)
(* set to their values.                                                    *)
(***************************************************************************)
None == [none |-> TRUE]
IsNone(r) == "none" \in DOMAIN r

Instance(cls, f) == [cls |-> cls, f |-> f]

\* [f.name for f in fields(cls) if f.init]
InitFields(cls) == SelectSeq(Fields(cls), LAMBDA fld : fld.init)

\* [f.name for f in fields(cls) if not f.init]
NonInitFields(cls) == SelectSeq(Fields(cls), LAMBDA fld : ~fld.init)

\* the annotation of the field called field_name
FieldType(cls, field_name) ==
    LET i == CHOOSE i \in 1..Len(Fields(cls)) : Fields(cls)[i].name = field_name
    IN  Fields(cls)[i].type

\* BinaryStruct.on_unpack: the override for a sized or null-terminated field
on_unpack(cls, field_name, data_chunk) ==
    LET type == FieldType(cls, field_name)
    IN  CASE type.t = "SizedString" ->
               LET r == SizedString_from_bytes(data_chunk, type.size)
               IN  IF IsExc(r) THEN r ELSE Ok(SizedString_value(r.val))
          [] type.t = "SizedBytes" ->
               LET r == SizedBytes_from_bytes(data_chunk, type.size)
               IN  IF IsExc(r) THEN r ELSE Ok(SizedBytes_value(r.val))
          [] type.t = "CString" ->
               LET r == CString_from_bytes(data_chunk)
               IN  IF IsExc(r) THEN r ELSE Ok(CString_value(r.val))
          [] OTHER -> None

\* struct.unpack(token, chunk) and the choice of lines 82-99
UnpackToken(tok, chunk) ==
    IF tok.code = "s" THEN PyBytes(chunk)
    ELSE IF CountVal(tok) > 1
         THEN PyList([i \in 1..CountVal(tok) |->
                  PyInt(UnpackLE(SubSeq(chunk, (i - 1) * CodeWidth(tok.code) + 1,
                                        i * CodeWidth(tok.code))))])
         ELSE PyInt(UnpackLE(chunk))

RECURSIVE ParseFixed(_, _, _, _, _)
RECURSIVE ParseToken(_, _, _, _, _, _, _)
\* the loop of from_bytes over the tokens: the attributes and the final offset
ParseFixed(cls, data, index, offset, parsed) ==
    IF index > Len(STRUCT_FORMAT(cls)) THEN Ok([f |-> parsed, offset |-> offset])
    ELSE IF index > Len(InitFields(cls)) THEN Raise("IndexError")
    ELSE ParseToken(cls, data, index, offset, parsed, STRUCT_FORMAT(cls)[index],
                    InitFields(cls)[index].name)

\* one round of that loop, lines 73-100
ParseToken(cls, data, index, offset, parsed, token, name) ==
    LET size == CalcSize(token)
        chunk == SubSeq(data, offset + 1, offset + size)
    IN  IF IsNone(on_unpack(cls, name, chunk))
        THEN ParseFixed(cls, data, index + 1, offset + size,
                        (name :> UnpackToken(token, chunk)) @@ parsed)
        ELSE Then(on_unpack(cls, name, chunk),
                  LAMBDA value : ParseFixed(cls, data, index + 1, offset + size,
                                            (name :> value) @@ parsed))

RECURSIVE Deducted(_)
\* the loop of sizeof: the unknown data held by the CString annotations, each
\* the instance CString("", n) of the class body
Deducted(fields) ==
    IF Len(fields) = 0 THEN 0
    ELSE (IF fields[1].type.t = "CString"
          THEN Len(CString_new(<<>>, fields[1].type.size).val.unk)
          ELSE 0) + Deducted(Tail(fields))

\* BinaryStruct.sizeof
sizeof(cls) == SumSizes(STRUCT_FORMAT(cls)) - Deducted(Fields(cls))

RECURSIVE from_bytes(_, _)
RECURSIVE ReadRecords(_, _, _, _)
\* the loop of GetWorldChat.on_remaining: count records of record_cls
ReadRecords(record_cls, count, remaining, acc) ==
    IF count = 0 THEN Ok(acc)
    ELSE Then(from_bytes(record_cls, Take(remaining, sizeof(record_cls))),
              LAMBDA m : ReadRecords(record_cls, count - 1,
                                     Drop(remaining, sizeof(record_cls)), Append(acc, m)))

\* on_remaining: BinaryStruct's (nothing consumed) and GetWorldChat's override;
\* the instance with what the hook set, and the bytes consumed
on_remaining(inst, field_name, remaining) ==
    IF inst.cls = "GetWorldChat"
    THEN IF field_name = "messages"
         THEN Then(ReadRecords("WorldChatMessage", inst.f["new_message_count"].v,
                               remaining, <<>>),
                   LAMBDA ms :
                     Ok([inst |-> Instance(inst.cls, ("messages" :> PyList(ms)) @@ inst.f),
                         consumed |-> inst.f["new_message_count"].v
                                      * sizeof("WorldChatMessage")]))
         ELSE Ok([inst |-> inst, consumed |-> 0])
    ELSE Ok([inst |-> inst, consumed |-> 0])

RECURSIVE HandleRemaining(_, _, _)
\* the loop of from_bytes over the non-init fields
HandleRemaining(inst, fields, remaining) ==
    IF Len(fields) = 0 THEN Ok(inst)
    ELSE Then(on_remaining(inst, fields[1].name, remaining),
              LAMBDA r : HandleRemaining(r.inst, Tail(fields), Drop(remaining, r.consumed)))

\* BinaryStruct.from_bytes
from_bytes(cls, data) ==
    IF Len(data) < SumSizes(STRUCT_FORMAT(cls)) THEN Raise("ValueError")
    ELSE Then(ParseFixed(cls, data, 1, 0, <<>>),
              LAMBDA fixed :
                IF Len(Drop(data, fixed.offset)) > 0
                THEN HandleRemaining(Instance(cls, fixed.f), NonInitFields(cls),
                                     Drop(data, fixed.offset))
                ELSE Ok(Instance(cls, fixed.f)))

\* BinaryStruct.on_pack
on_pack(value) ==
    CASE value.t = "SizedString" -> Ok(SizedString_to_bytes(value))
      [] value.t = "SizedBytes" -> Ok(SizedBytes_to_bytes(value))
      [] value.t = "CString" -> Ok(CString_to_bytes(value))
      [] OTHER -> None

\* one round of the loop of to_bytes: the argument handed to struct.pack
PackValue(tok, val0) ==
    LET override == on_pack(val0)
        val == IF IsNone(override) THEN val0 ELSE override.val
    IN  IF tok.code = "s" /\ IsStr(val)
        THEN LET e == EncodeAscii(val.v) IN IF IsExc(e) THEN e ELSE Ok(PyBytes(e.val))
        ELSE Ok(val)

RECURSIVE PackArgs(_, _, _)
\* the loop of to_bytes over zip(fixed_field_names, tokens)
PackArgs(inst, index, args) ==
    IF index > Len(STRUCT_FORMAT(inst.cls)) \/ index > Len(InitFields(inst.cls))
    THEN Ok(args)
    ELSE LET name == InitFields(inst.cls)[index].name
         IN  IF name \notin DOMAIN inst.f THEN Raise("AttributeError")
             ELSE Then(PackValue(STRUCT_FORMAT(inst.cls)[index], inst.f[name]),
                       LAMBDA a : PackArgs(inst, index + 1, Append(args, a)))

RECURSIVE StructPack(_, _, _)
\* struct.pack(STRUCT_FORMAT, *args)
StructPack(tokens, args, index) ==
    IF Len(tokens) # Len(args) THEN Raise("struct.error")
    ELSE IF index > Len(tokens) THEN Ok(<<>>)
    ELSE Then(PackArg(tokens[index], args[index]),
              LAMBDA head : Then(StructPack(tokens, args, index + 1),
                                 LAMBDA rest : Ok(head \o rest)))

\* BinaryStruct.on_packing_remaining: no class of the catalog overrides it
on_packing_remaining(inst) == <<>>

\* BinaryStruct.to_bytes
to_bytes(inst) ==
    Then(PackArgs(inst, 1, <<>>),
         LAMBDA args :
           Then(StructPack(STRUCT_FORMAT(inst.cls), args, 1),
                LAMBDA fixed_part : Ok(fixed_part \o on_packing_remaining(inst))))

(***************************************************************************)
(* network/crypto/__init__.py: CryptoManager.  The DES object is the       *)
(* library's (Crypto.Cipher.DES in ECB mode); the model keeps what the     *)
(* CryptoManager relies on: the key is 8 bytes, the data a whole number of *)
(* 8-byte blocks, each block is mapped on its own by a permutation of the  *)
(* blocks that depends on the key, and decrypt is its inverse.             *)
(***************************************************************************)
\* DES block and key size in bytes; the 8 of data[:(len(data) // 8) * 8]
BlockSize == 8

\* DES.new(key, DES.MODE_ECB)
DES_new(key) ==
    IF Len(key) # BlockSize THEN Raise("ValueError") ELSE Ok([key |-> key])

\* one block through the cipher: the bytes rotated by one place, each added to a key byte
DesEncryptBlock(key, blk) ==
    [i \in 1..BlockSize |-> (blk[(i % BlockSize) + 1] + key[i]) % 256]

\* the inverse permutation
DesDecryptBlock(key, blk) ==
    [j \in 1..BlockSize |->
        LET i == ((j + BlockSize - 2) % BlockSize) + 1
        IN  (blk[i] - key[i] + 256) % 256]

\* the block that holds byte i of data
BlockOf(data, i) ==
    SubSeq(data, ((i - 1) \div BlockSize) * BlockSize + 1,
           ((i - 1) \div BlockSize) * BlockSize + BlockSize)

\* cipher.encrypt(data) in ECB mode
EcbEncrypt(cipher, data) ==
    IF Len(data) % BlockSize # 0 THEN Raise("ValueError")
    ELSE Ok([i \in 1..Len(data) |->
                DesEncryptBlock(cipher.key, BlockOf(data, i))[((i - 1) % BlockSize) + 1]])

\* cipher.decrypt(data) in ECB mode
EcbDecrypt(cipher, data) ==
    IF Len(data) % BlockSize # 0 THEN Raise("ValueError")
    ELSE Ok([i \in 1..Len(data) |->
                DesDecryptBlock(cipher.key, BlockOf(data, i))[((i - 1) % BlockSize) + 1]])

\* CryptoManager.__init__: _des_cipher = None
NoCipher == None

\* CryptoManager.init(key): the new _des_cipher, or what DES.new raised
CryptoManager_init(key) == DES_new(key)

\* encrypt that pads the tail to a whole block and encrypts it too
encrypt_padding_tail(cipher, data) ==
    IF cipher = NoCipher THEN Raise("RuntimeError")
    ELSE EcbEncrypt(cipher, Ljust(data, ((Len(data) + BlockSize - 1) \div BlockSize) * BlockSize))

\* CryptoManager.encrypt(data)
encrypt(cipher, data) ==
    IF cipher = NoCipher THEN Raise("RuntimeError")
    ELSE LET aligned_data == Take(data, (Len(data) \div BlockSize) * BlockSize)
             tail_data == Drop(data, (Len(data) \div BlockSize) * BlockSize)
             encrypted == EcbEncrypt(cipher, aligned_data)
         IN  IF IsExc(encrypted) THEN encrypted ELSE Ok(encrypted.val \o tail_data)

\* decrypt that runs the cipher forwards, as encrypt does
decrypt_calling_encrypt(cipher, data) ==
    IF cipher = NoCipher THEN Raise("RuntimeError")
    ELSE LET aligned_data == Take(data, (Len(data) \div BlockSize) * BlockSize)
             tail_data == Drop(data, (Len(data) \div BlockSize) * BlockSize)
             decrypted == EcbEncrypt(cipher, aligned_data)
         IN  IF IsExc(decrypted) THEN decrypted ELSE Ok(decrypted.val \o tail_data)

\* decrypt without the test for an uninitialized session: None has no decrypt
decrypt_unchecked(cipher, data) ==
    IF cipher = NoCipher THEN Raise("AttributeError")
    ELSE LET aligned_data == Take(data, (Len(data) \div BlockSize) * BlockSize)
             tail_data == Drop(data, (Len(data) \div BlockSize) * BlockSize)
             decrypted == EcbDecrypt(cipher, aligned_data)
         IN  IF IsExc(decrypted) THEN decrypted ELSE Ok(decrypted.val \o tail_data)

\* CryptoManager.decrypt(data)
decrypt(cipher, data) ==
    IF cipher = NoCipher THEN Raise("RuntimeError")
    ELSE LET aligned_data == Take(data, (Len(data) \div BlockSize) * BlockSize)
             tail_data == Drop(data, (Len(data) \div BlockSize) * BlockSize)
             decrypted == EcbDecrypt(cipher, aligned_data)
         IN  IF IsExc(decrypted) THEN decrypted ELSE Ok(decrypted.val \o tail_data)

(***************************************************************************)
(* network/packets/__init__.py: CCMessageRegistry.  The registry is        *)
(* [messages, attrs]: the class variable _messages and the attributes      *)
(* _message_id and _encrypted that client_message sets on a class.         *)
(***************************************************************************)
\* _messages = {"client": {}, "server": {}}
EmptyRegistry == [messages |-> [client |-> <<>>, server |-> <<>>], attrs |-> <<>>]

\* the decorator of client_message(message_id, encrypted) applied to kls: the
\* test is kls.__name__ in cls._messages, whose keys are "client" and "server"
client_message(reg, message_id, encrypted, kls) ==
    IF kls \in DOMAIN reg.messages THEN Raise("ValueError")
    ELSE Ok([messages |-> [reg.messages EXCEPT !.client = (kls :> message_id) @@ @],
             attrs |-> (kls :> [message_id |-> message_id, encrypted |-> encrypted])
                       @@ reg.attrs])

\* message_id in cls._messages: an int looked up among the keys "client" and
\* "server" of a dict, which compares unequal to both
IntInMessages(reg, message_id) == FALSE

\* the decorator of server_message(message_id) applied to kls
server_message(reg, message_id, kls) ==
    IF IntInMessages(reg, message_id) THEN Raise("ValueError")
    ELSE Ok([reg EXCEPT !.messages.server = (message_id :> kls) @@ @])

\* a lookup that falls back to the base class instead of None
get_server_message_defaulting(reg, message_id) ==
    IF message_id \in DOMAIN reg.messages.server
    THEN [kls |-> reg.messages.server[message_id]]
    ELSE [kls |-> "CCMessage"]

\* CCMessageRegistry.get_server_message: dict.get, the class found or None
get_server_message(reg, message_id) ==
    IF message_id \in DOMAIN reg.messages.server
    THEN [kls |-> reg.messages.server[message_id]]
    ELSE None

\* CCMessageRegistry.get_id_for_client_message: dict.get, the id found or None
get_id_for_client_message(reg, message_name) ==
    IF message_name \in DOMAIN reg.messages.client
    THEN PyInt(reg.messages.client[message_name])
    ELSE None

\* the decorators of packets/client.py and packets/server.py, in import order
Decorators ==
    <<[dir |-> "client", id |-> 562, encrypted |-> FALSE, kls |-> "ConnectLoginServer"],
      [dir |-> "client", id |-> 503, encrypted |-> FALSE, kls |-> "ConnectGameServer"],
      [dir |-> "client", id |-> 1005, encrypted |-> TRUE, kls |-> "AckEncryptionResp"],
      [dir |-> "client", id |-> 1016, encrypted |-> TRUE, kls |-> "GameInitComplete"],
      [dir |-> "client", id |-> 1003, encrypted |-> TRUE, kls |-> "Active"],
      [dir |-> "client", id |-> 1068, encrypted |-> TRUE, kls |-> "GetSelectChat"],
      [dir |-> "server", id |-> 504, encrypted |-> FALSE, kls |-> "RespLoginServerValidate"],
      [dir |-> "server", id |-> 505, encrypted |-> FALSE, kls |-> "RespGameServerLoginResp"],
      [dir |-> "server", id |-> 1014, encrypted |-> FALSE, kls |-> "GetWorldChat"]>>

\* one decorator application
Decorate(reg, d) ==
    IF d.dir = "client" THEN client_message(reg, d.id, d.encrypted, d.kls)
    ELSE server_message(reg, d.id, d.kls)

RECURSIVE Import(_, _)
\* the registry after the decorators ds have run on reg
Import(reg, ds) ==
    IF Len(ds) = 0 THEN reg ELSE Import(Decorate(reg, ds[1]).val, Tail(ds))

\* the registry of the running client
Registry == Import(EmptyRegistry, Decorators)

(***************************************************************************)
(* The registry under test: decorators applied one after the other to the  *)
(* empty registry.                                                         *)
(***************************************************************************)
\* the most decorator applications of one run
MaxRegistrations == 3

RegClasses == {"ConnectLoginServer", "RespLoginServerValidate", "GetWorldChat"}
RegIds == {562, 504, 1014}

NoCall == [n |-> 0, dir |-> "none", id |-> 0, kls |-> "none"]

RegistryIdle ==
    /\ messages = EmptyRegistry.messages
    /\ cls_attrs = EmptyRegistry.attrs
    /\ reg_call = NoCall
    /\ reg_result = "none"
    /\ reg_prev = EmptyRegistry.messages

\* the effect of one decorator application d
Register(d) ==
    LET r == Decorate([messages |-> messages, attrs |-> cls_attrs], d)
    IN  /\ reg_call.n < MaxRegistrations
        /\ reg_call' = [n |-> reg_call.n + 1, dir |-> d.dir, id |-> d.id, kls |-> d.kls]
        /\ reg_prev' = messages
        /\ IF IsExc(r)
           THEN /\ reg_result' = r.exc
                /\ UNCHANGED <<messages, cls_attrs>>
           ELSE /\ reg_result' = "ok"
                /\ messages' = r.val.messages
                /\ cls_attrs' = r.val.attrs

\* @CCMessageRegistry.client_message(id, encrypted) on class kls
RegisterClient ==
    /\ \E id \in RegIds, encrypted \in BOOLEAN, kls \in RegClasses :
          Register([dir |-> "client", id |-> id, encrypted |-> encrypted, kls |-> kls])
    /\ UNCHANGED <<crypto_vars, codec_vars, session_vars, natives_vars, chat_vars>>

\* @CCMessageRegistry.server_message(id) on class kls
RegisterServer ==
    /\ \E id \in RegIds, kls \in RegClasses :
          Register([dir |-> "server", id |-> id, encrypted |-> FALSE, kls |-> kls])
    /\ UNCHANGED <<crypto_vars, codec_vars, session_vars, natives_vars, chat_vars>>

(***************************************************************************)
(* The codec under test: an instance x of a layout, x.to_bytes(), and      *)
(* from_bytes of the result.                                               *)
(***************************************************************************)
\* the most chat records an instance under test holds
MaxRecords == 2

\* 'abc', and a string with a two-byte character and an inner zero
StrValues == {<<>>, <<97, 98, 99>>, <<233, 0, 97>>}
AsciiValues == {<<>>, <<97, 98, 99>>}
BytesValues == {<<>>, <<1, 2, 0, 3>>, <<7, 0, 0>>}
IntValues == {0, 66051}
ShortValues == {0, 513}

\* field values that satisfy the field's size constraint: a sized field holds
\* the sized type built by its constructor or a plain value no longer than
\* the size, as from_bytes leaves it
FieldValues(fld) ==
    CASE fld.type.t = "u16" -> {PyInt(n) : n \in ShortValues}
      [] fld.type.t \in {"u32", "u64"} -> {PyInt(n) : n \in IntValues}
      [] fld.type.t = "SizedString" ->
           {SizedString_new(v, fld.type.size).val : v \in StrValues}
           \cup {PyStr(v) : v \in AsciiValues}
      [] fld.type.t = "SizedBytes" ->
           {SizedBytes_new(v, fld.type.size).val : v \in BytesValues}
           \cup {PyBytes(v) : v \in BytesValues}
      [] fld.type.t = "CString" ->
           {CString_new(v, fld.type.size).val : v \in AsciiValues \ {<<>>}}

\* the first value of a field: the one an instance holds in the fields that
\* are not being varied
BaseValue(fld) ==
    CASE fld.type.t = "u16" -> PyInt(513)
      [] fld.type.t \in {"u32", "u64"} -> PyInt(66051)
      [] fld.type.t = "SizedString" -> SizedString_new(<<97, 98, 99>>, fld.type.size).val
      [] fld.type.t = "SizedBytes" -> SizedBytes_new(<<1, 2, 0, 3>>, fld.type.size).val
      [] fld.type.t = "CString" -> CString_new(<<97, 98, 99>>, fld.type.size).val

\* the instance of cls with every init field at its base value
BaseInstance(cls) ==
    Instance(cls, [n \in {InitFields(cls)[i].name : i \in 1..Len(InitFields(cls))} |->
                      BaseValue([name |-> n, type |-> FieldType(cls, n), init |-> TRUE])])

\* the instances of a layout without a dynamic tail: the base instance with one
\* field varied over its values
FixedInstances(cls) ==
    {Instance(cls, [BaseInstance(cls).f EXCEPT ![InitFields(cls)[i].name] = v]) :
        <<i, v>> \in UNION {{<<i, v>> : v \in FieldValues(InitFields(cls)[i])} :
                              i \in 1..Len(InitFields(cls))}}

\* the instances of GetWorldChat: new_message_count records in messages
GetWorldChatInstances ==
    {Instance("GetWorldChat",
              [BaseInstance("GetWorldChat").f EXCEPT !["new_message_count"] = PyInt(n)]
              @@ ("messages" :> PyList([i \in 1..n |-> rec]))) :
        <<n, rec>> \in (0..MaxRecords) \X FixedInstances("WorldChatMessage")}

\* the classes registered in either direction
ClientClasses == DOMAIN Registry.messages.client
ServerClasses == {Registry.messages.server[id] : id \in DOMAIN Registry.messages.server}

Instances(cls) ==
    IF cls = "GetWorldChat" THEN GetWorldChatInstances ELSE FixedInstances(cls)

CodecInputs == UNION {Instances(cls) : cls \in ClientClasses \cup ServerClasses}

CodecIdle ==
    /\ codec_x = None
    /\ codec_bytes = NotYet
    /\ codec_y = NotYet

\* x.to_bytes()
CodecEncode ==
    /\ codec_x # None
    /\ codec_bytes = NotYet
    /\ codec_bytes' = to_bytes(codec_x)
    /\ UNCHANGED <<codec_x, codec_y, registry_vars, crypto_vars, session_vars, natives_vars, chat_vars>>

\* type(x).from_bytes(x.to_bytes())
CodecDecode ==
    /\ codec_bytes # NotYet
    /\ ~IsExc(codec_bytes)
    /\ codec_y = NotYet
    /\ codec_y' = from_bytes(codec_x.cls, codec_bytes.val)
    /\ UNCHANGED <<codec_x, codec_bytes, registry_vars, crypto_vars, session_vars, natives_vars, chat_vars>>

(***************************************************************************)
(* The crypto session under test: init, encrypt and decrypt called in any  *)
(* order, and decrypt called on what encrypt just returned.                *)
(***************************************************************************)
\* the longest input of encrypt and decrypt
MaxDataLen == 17

\* byte strings of every length up to MaxDataLen
CryptoInputs ==
    {[i \in 1..n |-> (p * i + q) % 256] : <<n, p, q>> \in (0..MaxDataLen) \X {1, 37} \X {0, 200}}

\* two 8-byte keys, and keys DES.new refuses
CryptoKeys ==
    {<<1, 2, 3, 4, 5, 6, 7, 8>>, <<255, 0, 17, 34, 51, 68, 85, 102>>, <<1, 2, 3>>,
     [i \in 1..16 |-> i]}

\* crypto_call: the call, its argument, the cipher it found, and for a decrypt
\* of encrypt's result the plaintext and cipher of that encrypt
NoCryptoCall ==
    [op |-> "none", data |-> <<>>, cipher |-> NoCipher, chained |-> FALSE, src |-> <<>>,
     src_cipher |-> NoCipher]

CryptoIdle ==
    /\ des_cipher = NoCipher
    /\ crypto_call = NoCryptoCall
    /\ crypto_result = NotYet

\* CryptoManager.init(key)
CryptoInit ==
    /\ \E key \in CryptoKeys :
          LET r == CryptoManager_init(key)
          IN  /\ crypto_call' = [NoCryptoCall EXCEPT !.op = "init", !.data = key,
                                                      !.cipher = des_cipher]
              /\ crypto_result' = IF IsExc(r) THEN r ELSE Ok(<<>>)
              /\ des_cipher' = IF IsExc(r) THEN des_cipher ELSE r.val
    /\ UNCHANGED <<registry_vars, codec_vars, session_vars, natives_vars, chat_vars>>

\* CryptoManager.encrypt(data)
CryptoEncrypt ==
    /\ \E data \in CryptoInputs :
          /\ crypto_call' = [NoCryptoCall EXCEPT !.op = "encrypt", !.data = data,
                                                  !.cipher = des_cipher]
          /\ crypto_result' = encrypt(des_cipher, data)
    /\ UNCHANGED <<des_cipher, registry_vars, codec_vars, session_vars, natives_vars, chat_vars>>

\* CryptoManager.decrypt(data)
CryptoDecrypt ==
    /\ \E data \in CryptoInputs :
          /\ crypto_call' = [NoCryptoCall EXCEPT !.op = "decrypt", !.data = data,
                                                  !.cipher = des_cipher]
          /\ crypto_result' = decrypt(des_cipher, data)
    /\ UNCHANGED <<des_cipher, registry_vars, codec_vars, session_vars, natives_vars, chat_vars>>

\* CryptoManager.decrypt(CryptoManager.encrypt(x)), the encrypt being the last call
CryptoDecryptEncrypted ==
    /\ crypto_call.op = "encrypt"
    /\ ~IsExc(crypto_result)
    /\ crypto_call' = [op |-> "decrypt", data |-> crypto_result.val, cipher |-> des_cipher,
                       chained |-> TRUE, src |-> crypto_call.data,
                       src_cipher |-> crypto_call.cipher]
    /\ crypto_result' = decrypt(des_cipher, crypto_result.val)
    /\ UNCHANGED <<des_cipher, registry_vars, codec_vars, session_vars, natives_vars, chat_vars>>

(***************************************************************************)
(* The field types under test: a sized value is built and encoded, on its  *)
(* own and as a field of a message, and a CString is decoded from bytes.   *)
(***************************************************************************)
\* the largest declared size of a sized value under test
MaxFieldSize == 3

\* 'a', U+00E9 (two bytes in UTF-8) and NUL
NatChars == {97, 233, 0}

\* the bytes 'a', 'b' and zero
NatBytes == {97, 98, 0}

\* the sequences over S of up to n elements
SeqsUpTo(S, n) == UNION {[1..k -> S] : k \in 0..n}

NoNatCall == [op |-> "none", value |-> <<>>, size |-> 0]

NativesIdle ==
    /\ nat_call = NoNatCall
    /\ nat_result = NotYet

\* SizedString(value, size).to_bytes()
NativesSizedString ==
    /\ \E value \in SeqsUpTo(NatChars, MaxFieldSize + 1), size \in 1..MaxFieldSize :
          /\ nat_call' = [op |-> "SizedString", value |-> value, size |-> size]
          /\ nat_result' = Then(SizedString_new(value, size),
                                LAMBDA x : Ok(SizedString_to_bytes(x).v))
    /\ UNCHANGED <<registry_vars, crypto_vars, codec_vars, session_vars, chat_vars>>

\* SizedBytes(value, size).to_bytes()
NativesSizedBytes ==
    /\ \E value \in SeqsUpTo(NatBytes, MaxFieldSize + 1), size \in 1..MaxFieldSize :
          /\ nat_call' = [op |-> "SizedBytes", value |-> value, size |-> size]
          /\ nat_result' = Then(SizedBytes_new(value, size),
                                LAMBDA x : Ok(SizedBytes_to_bytes(x).v))
    /\ UNCHANGED <<registry_vars, crypto_vars, codec_vars, session_vars, chat_vars>>

\* the bytes of the field des_key (16s, after HH4sQ) in what to_bytes returned
DesKeyField(packed) == SubSeq(packed, 17, 32)

\* RespGameServerLoginResp(..., des_key=value).to_bytes(), value a plain bytes
\* as from_bytes leaves it in the field: the bytes of the field des_key
NativesPackField ==
    /\ \E value \in {Rep(98, n) : n \in {0, 15, 16, 17}} :
          /\ nat_call' = [op |-> "des_key", value |-> value, size |-> 16]
          /\ nat_result' =
                Then(to_bytes(Instance("RespGameServerLoginResp",
                                       [BaseInstance("RespGameServerLoginResp").f
                                           EXCEPT !["des_key"] = PyBytes(value)])),
                     LAMBDA packed : Ok(DesKeyField(packed)))
    /\ UNCHANGED <<registry_vars, crypto_vars, codec_vars, session_vars, chat_vars>>

\* c = CString.from_bytes(value): the string, c.unknown_data and c.to_bytes()
NativesCString ==
    /\ \E value \in SeqsUpTo(NatBytes, MaxFieldSize + 2) :
          /\ nat_call' = [op |-> "CString", value |-> value, size |-> 0]
          /\ nat_result' = Then(CString_from_bytes(value),
                                LAMBDA c : Ok([str |-> c.v, unknown_data |-> c.unk,
                                               to_bytes |-> CString_to_bytes(c).v]))
    /\ UNCHANGED <<registry_vars, crypto_vars, codec_vars, session_vars, chat_vars>>

(***************************************************************************)
(* network/network_client.py: NetworkClient.  The steps of the tasks are   *)
(* operators on the record s of the session's state; a step runs from one  *)
(* suspension point of its task to the next, as the event loop runs it.    *)
(* An await that finds its result ready does not suspend: acquiring the    *)
(* free lock continues in the same step.  last_pick describes the          *)
(* pick_message attempt of the step just taken, and is None after a step   *)
(* without one.                                                            *)
(***************************************************************************)
Sess ==
    [pending_buffer |-> pending_buffer, lock_holder |-> lock_holder,
     lock_waiters |-> lock_waiters, shutdown_set |-> shutdown_set,
     tick_count |-> tick_count, gs_authed |-> gs_authed,
     last_recv_time |-> last_recv_time, notified |-> notified, login_key |-> login_key,
     pc |-> pc, rx_pc |-> rx_pc, chat_pc |-> chat_pc, rx_data |-> rx_data,
     config |-> config, writer |-> writer, stream |-> stream, sent_frames |-> sent_frames,
     rx_pos |-> rx_pos, recv_age |-> recv_age, wire |-> wire, last_frame |-> last_frame,
     last_packet |-> last_packet, extracted |-> extracted, last_pick |-> None,
     handled |-> handled, des_cipher |-> des_cipher, gs_login_resp |-> gs_login_resp,
     small_age |-> small_age, idle_fired |-> None, gs_extra |-> gs_extra]

Becomes(s) ==
    /\ pending_buffer' = s.pending_buffer
    /\ lock_holder' = s.lock_holder
    /\ lock_waiters' = s.lock_waiters
    /\ shutdown_set' = s.shutdown_set
    /\ tick_count' = s.tick_count
    /\ gs_authed' = s.gs_authed
    /\ last_recv_time' = s.last_recv_time
    /\ notified' = s.notified
    /\ login_key' = s.login_key
    /\ pc' = s.pc
    /\ rx_pc' = s.rx_pc
    /\ chat_pc' = s.chat_pc
    /\ rx_data' = s.rx_data
    /\ config' = s.config
    /\ writer' = s.writer
    /\ stream' = s.stream
    /\ sent_frames' = s.sent_frames
    /\ rx_pos' = s.rx_pos
    /\ recv_age' = s.recv_age
    /\ wire' = s.wire
    /\ last_frame' = s.last_frame
    /\ last_packet' = s.last_packet
    /\ extracted' = s.extracted
    /\ last_pick' = s.last_pick
    /\ handled' = s.handled
    /\ des_cipher' = s.des_cipher
    /\ gs_login_resp' = s.gs_login_resp
    /\ small_age' = IF Len(s.pending_buffer) > 4 THEN 0 ELSE s.small_age
    /\ idle_fired' = s.idle_fired
    /\ gs_extra' = s.gs_extra

\* the values Becomes(s) gives the variables, and the values they have
After(s) ==
    <<s.pending_buffer, s.lock_holder, s.lock_waiters, s.shutdown_set, s.tick_count,
      s.gs_authed, s.last_recv_time, s.notified, s.login_key, s.pc, s.rx_pc, s.chat_pc,
      s.rx_data, s.config, s.writer, s.stream, s.sent_frames, s.rx_pos, s.recv_age,
      s.wire, s.last_frame, s.last_packet, s.extracted, s.last_pick, s.handled,
      s.des_cipher, s.gs_login_resp,
      IF Len(s.pending_buffer) > 4 THEN 0 ELSE s.small_age, s.idle_fired, s.gs_extra>>

Now ==
    <<pending_buffer, lock_holder, lock_waiters, shutdown_set, tick_count, gs_authed,
      last_recv_time, notified, login_key, pc, rx_pc, chat_pc, rx_data, config, writer,
      stream, sent_frames, rx_pos, recv_age, wire, last_frame, last_packet, extracted,
      last_pick, handled, des_cipher, gs_login_resp, small_age, idle_fired, gs_extra>>

\* a step to s is a step: it changes a variable
Changes(s) == After(s) # Now

\* the seconds of silence after which the initial data counts as sent (line 138)
IdleSeconds == 3

\* getattr(packet, "_message_id", 0)
MessageIdOf(packet) ==
    IF packet.cls \in DOMAIN Registry.attrs THEN Registry.attrs[packet.cls].message_id ELSE 0

\* getattr(packet, "_encrypted", False)
EncryptedOf(packet) ==
    IF packet.cls \in DOMAIN Registry.attrs THEN Registry.attrs[packet.cls].encrypted
    ELSE FALSE

\* a header that declares the length of the body alone
PackHeader_of_body_length(packet_size, message_id) ==
    IF packet_size >= 65536 \/ message_id >= 65536 THEN Raise("struct.error")
    ELSE Ok(PackLE(packet_size - 4, 2) \o PackLE(message_id, 2))

\* struct.pack("<HH", packet_size, message_id)
PackHeader(packet_size, message_id) ==
    IF packet_size >= 65536 \/ message_id >= 65536 THEN Raise("struct.error")
    ELSE Ok(PackLE(packet_size, 2) \o PackLE(message_id, 2))

\* the classes whose first field is the sequence id
SeqClasses == {"AckEncryptionResp", "GameInitComplete", "Active", "GetSelectChat"}

\* what the peer reads from a frame on the wire: its identifier, its size, and
\* the four bytes of the seq id in its decrypted body when its class carries one
WireRecord(s, frame) ==
    LET id == UnpackLE(SubSeq(frame, 3, 4))
        carries == \E k \in SeqClasses : Registry.attrs[k].message_id = id
        body == decrypt(s.des_cipher, Drop(frame, 4))
    IN  [conn |-> s.writer.conn, id |-> id, size |-> Len(frame),
         seq |-> IF carries /\ ~IsExc(body) THEN Take(body.val, 4) ELSE <<>>]

\* self._writer.write(packet_data) in send
write(s, packet, packet_data) ==
    [s EXCEPT !.wire = Append(@, WireRecord(s, packet_data)),
              !.last_frame = packet_data,
              !.last_packet = [packet |-> packet, cipher |-> s.des_cipher]]

\* a send that ignores the registry's encrypted flag
send_without_encrypt(s, packet) ==
    IF MessageIdOf(packet) = 0 THEN Ok(s)
    ELSE Then(to_bytes(packet),
              LAMBDA packet_data :
                Then(PackHeader(Len(packet_data) + 4, MessageIdOf(packet)),
                     LAMBDA header : Ok(write(s, packet, header \o packet_data))))

\* NetworkClient.send up to its await of drain: the state after the write, or
\* the exception raised before it
send(s, packet) ==
    IF MessageIdOf(packet) = 0 THEN Ok(s)
    ELSE Then(to_bytes(packet),
              LAMBDA packet_data :
                Then(IF EncryptedOf(packet) THEN encrypt(s.des_cipher, packet_data)
                     ELSE Ok(packet_data),
                     LAMBDA body :
                       Then(PackHeader(Len(packet_data) + 4, MessageIdOf(packet)),
                            LAMBDA header : Ok(write(s, packet, header \o body)))))

\* a _tick that returns the counter as it is
tick_without_increment(count) == count

\* NetworkClient._tick: the counter after the call, which is also its result
tick(count) == count + 1

\* asyncio.Lock.acquire does not suspend: the lock is free and nobody waits
CanAcquire(s) == s.lock_holder = "none" /\ s.lock_waiters = <<>>

\* asyncio.Lock.acquire that does not suspend, or the resumption of task
Acquire(s, task) ==
    [s EXCEPT !.lock_holder = task,
              !.lock_waiters = SelectSeq(@, LAMBDA w : w # task)]

\* asyncio.Lock.acquire that suspends
WaitForLock(s, task) == [s EXCEPT !.lock_waiters = Append(@, task)]

\* asyncio.Lock.release: the first waiter is woken and runs when it is scheduled
Release(s) == [s EXCEPT !.lock_holder = "none"]

\* the waiting task is the one release woke
Granted(s, task) ==
    s.lock_holder = "none" /\ Len(s.lock_waiters) > 0 /\ s.lock_waiters[1] = task

\* no task is in the event loop's ready queue: none was created and has not
\* run yet, none was woken by the lock's release.  The loop runs its ready
\* queue before it looks at timers and sockets, so a task resumed by a timer
\* or by the socket runs only when this holds.
NoTaskReady ==
    /\ rx_pc # "start"
    /\ chat_pc # "start"
    /\ ~(lock_holder = "none" /\ Len(lock_waiters) > 0)

\* a shutdown that closes the socket at once
shutdown_without_grace(s) ==
    [s EXCEPT !.shutdown_set = TRUE, !.writer.state = "closing", !.pc = "wait_closed"]

\* NetworkClient.shutdown up to its sleep of 1.5 seconds
shutdown(s) == [s EXCEPT !.shutdown_set = TRUE, !.pc = "grace"]

\* the keys of _handlers: the hexadecimal suffixes of the handler_ methods
Handlers == {1014}

\* a handler that walks the message list from first to last
ChatLines_in_encoded_order(msgs) ==
    [i \in 1..Len(msgs) |->
        [player_name |-> msgs[i].f["player_name"], message |-> msgs[i].f["message"]]]

\* the lines handler_03f6 logs for a message list: packet.messages[::-1]
ChatLines(msgs) ==
    [i \in 1..Len(msgs) |->
        [player_name |-> msgs[Len(msgs) + 1 - i].f["player_name"],
         message |-> msgs[Len(msgs) + 1 - i].f["message"]]]

\* NetworkClient.handler_03f6
handler_03f6(s, packet) ==
    IF "messages" \notin DOMAIN packet.f THEN Raise("AttributeError")
    ELSE Ok([s EXCEPT !.handled = @ \o ChatLines(packet.f["messages"].v)])

\* a pick_message without the test of line 175: it takes what is buffered
pick_message_ignoring_length(s) ==
    IF Len(s.pending_buffer) < 4 THEN [s |-> s, packet |-> Ok(None), took |-> FALSE]
    ELSE [s |-> [s EXCEPT !.pending_buffer = <<>>,
                          !.extracted = Append(@, s.pending_buffer)],
          packet |-> Ok(None), took |-> TRUE]

\* a pick_message that throws away the bytes of a frame that is not complete
pick_message_dropping_partial(s) ==
    LET buf == s.pending_buffer
        message_size == UnpackLE(SubSeq(buf, 1, 2))
    IN  IF Len(buf) < 4 THEN [s |-> s, packet |-> Ok(None), took |-> FALSE]
        ELSE IF Len(buf) < message_size
             THEN [s |-> [s EXCEPT !.pending_buffer = <<>>], packet |-> Ok(None),
                   took |-> FALSE]
        ELSE [s |-> [s EXCEPT !.pending_buffer = Drop(buf, message_size),
                              !.extracted = Append(@, Take(buf, message_size))],
              packet |-> Ok(None), took |-> TRUE]

\* a pick_message that leaves the header of the frame it returns in the buffer
pick_message_keeping_header(s) ==
    LET buf == s.pending_buffer
        message_size == UnpackLE(SubSeq(buf, 1, 2))
    IN  IF Len(buf) < 4 THEN [s |-> s, packet |-> Ok(None), took |-> FALSE]
        ELSE IF Len(buf) < message_size THEN [s |-> s, packet |-> Ok(None), took |-> FALSE]
        ELSE [s |-> [s EXCEPT !.pending_buffer = Take(buf, 4) \o Drop(buf, message_size),
                              !.extracted = Append(@, Take(buf, message_size))],
              packet |-> Ok(None), took |-> TRUE]

\* the body of NetworkClient.pick_message, the lock held: the buffer after it
\* and what it returns or raises.  extracted lists the frames removed: a
\* slice of no bytes removes none.
pick_message(s) ==
    LET buf == s.pending_buffer
        message_size == UnpackLE(SubSeq(buf, 1, 2))
        message_id == UnpackLE(SubSeq(buf, 3, 4))
        packet_data == Take(buf, message_size)
        packet_class == get_server_message(Registry, message_id)
        taken == [s EXCEPT !.pending_buffer = Drop(buf, message_size),
                           !.extracted = IF message_size = 0 THEN @
                                         ELSE Append(@, packet_data)]
    IN  IF Len(buf) < 4 THEN [s |-> s, packet |-> Ok(None), took |-> FALSE]
        ELSE IF Len(buf) < message_size THEN [s |-> s, packet |-> Ok(None), took |-> FALSE]
        ELSE IF IsNone(packet_class) THEN [s |-> taken, packet |-> Ok(None), took |-> TRUE]
        ELSE [s |-> taken, packet |-> from_bytes(packet_class.kls, packet_data),
              took |-> TRUE]

\* packet.message_id in self._handlers, for what pick_message returned
Handles(packet) ==
    ~IsExc(packet) /\ ~IsNone(packet.val) /\ packet.val.f["message_id"].v \in Handlers

\* lines 152-163 for the result r of pick_message, s1 the state in which it
\* returned and h what the handler did
Handled(s, r, s1, h) ==
    LET s2 == IF IsExc(r.packet) \/ IsExc(h) THEN shutdown(s1)
              ELSE [h.val EXCEPT !.pc = "sleep"]
    IN  [s2 EXCEPT !.last_pick =
            [before |-> s.pending_buffer, after |-> s1.pending_buffer, took |-> r.took,
             frames_before |-> Len(s.extracted), lock_after |-> s1.lock_holder,
             packet |-> r.packet, handler |-> Handles(r.packet),
             raised |-> IsExc(r.packet) \/ IsExc(h), then |-> s2.pc]]

\* a pick_message that returns without leaving the lock's block
Dispatched_under_lock(s, r) ==
    Handled(s, r, r.s,
            IF Handles(r.packet) THEN handler_03f6(r.s, r.packet.val) ELSE Ok(r.s))

\* lines 156-157 for the result r of pick_message
Dispatched(s, r) ==
    Handled(s, r, Release(r.s),
            IF Handles(r.packet) THEN handler_03f6(Release(r.s), r.packet.val)
            ELSE Ok(Release(r.s)))

\* run_main_loop from the body of pick_message, the lock held, to the next
\* suspension point; the attempt is recorded in last_pick
Dispatch(s) == Dispatched(s, pick_message(s))

\* await self.pick_message() of line 150: the lock is taken at once or waited for
PickMessage(s) ==
    IF CanAcquire(s) THEN Dispatch(Acquire(s, "main"))
    ELSE [WaitForLock(s, "main") EXCEPT !.pc = "wait_lock_pick"]

\* the condition of lines 134-139
Idle(s) ==
    /\ ~s.notified
    /\ Len(s.pending_buffer) <= 4
    /\ s.last_recv_time > 0
    /\ s.recv_age > IdleSeconds

\* the fields of a client message that carries only its seq id
SeqOnly(seq_id) == "seq_id" :> PyInt(seq_id)

\* the dispatch loop after a send returned r to the state s1: an exception
\* releases the lock and ends the loop in shutdown
Sent(s1, r, target) ==
    IF IsExc(r) THEN shutdown(Release(s1)) ELSE [r.val EXCEPT !.pc = target]

\* _tick and send of a message built from the new count; an exception raised
\* inside the lock's block releases the lock and ends the loop in shutdown
TickAndSend(s, cls, rest, target) ==
    Sent([s EXCEPT !.tick_count = tick(s.tick_count)],
         send([s EXCEPT !.tick_count = tick(s.tick_count)],
              Instance(cls, SeqOnly(tick(s.tick_count)) @@ rest)),
         target)

\* the state in which the condition of lines 134-139 held: how many bytes had
\* been appended, how many were buffered, and for how long the buffer had
\* held at most 4 bytes, which is not counted from here on
Fired(s) ==
    [s EXCEPT !.idle_fired = [received |-> s.rx_pos - Len(s.rx_data),
                              buffered |-> Len(s.pending_buffer),
                              small_age |-> s.small_age],
              !.small_age = 0]

\* the block of lines 133-149 entered with the lock held
IdleCheck(s) ==
    IF Idle(s) THEN TickAndSend(Fired(s), "GameInitComplete", <<>>, "drain_notify")
    ELSE PickMessage(Release(s))

\* run_main_loop from the top of its loop
LoopTop(s) ==
    IF s.shutdown_set THEN shutdown(s)
    ELSE IF CanAcquire(s) THEN IdleCheck(Acquire(s, "main"))
    ELSE [WaitForLock(s, "main") EXCEPT !.pc = "wait_lock_idle"]

\* a loop that starts the chat task and forgets that it has notified the server
AfterActive_without_flag(s) ==
    PickMessage(Release([s EXCEPT !.chat_pc = "start"]))

\* lines 144-150 after send_active returned
AfterActive(s) ==
    PickMessage(Release([s EXCEPT !.notified = TRUE, !.chat_pc = "start"]))

(***************************************************************************)
(* The session's environment: the configuration, what the two servers      *)
(* answer, and the frames the game server sends afterwards.                *)
(***************************************************************************)
MaxFrames == 2
MaxChunk == 2
MaxTicks == 5

\* get_config: the template of gen_config.py, with and without a user id
Configs ==
    {[client_version |-> 66051, user_id |-> u, auth_key |-> <<97, 98, 99>>, game_id |-> 1,
      client_sign |-> 5, language_id |-> 2] : u \in {0, 12345}}

\* a frame as the server builds it: total length, identifier, payload
ServerFrame(id, payload) == PackLE(Len(payload) + 4, 2) \o PackLE(id, 2) \o payload

\* the 960 bytes of a 0x01f8 response
LoginResponse ==
    to_bytes(Instance("RespLoginServerValidate",
                      [BaseInstance("RespLoginServerValidate").f
                          EXCEPT !["message_size"] = PyInt(960),
                                 !["message_id"] = PyInt(504)])).val

\* what reader.read(1024) returns at login: the response, or its first bytes
LoginReads == {LoginResponse, Take(LoginResponse, 100)}

\* the des_key fields a 0x01f9 response may carry: 8 bytes, 7 bytes, 16 bytes
DesKeys == {<<1, 2, 3, 4, 5, 6, 7, 8>>, <<1, 2, 3, 4, 5, 6, 7>>, [i \in 1..16 |-> i]}

\* the 32 bytes of a 0x01f9 response
GsResponse(des_key) ==
    to_bytes(Instance("RespGameServerLoginResp",
                      [BaseInstance("RespGameServerLoginResp").f
                          EXCEPT !["message_size"] = PyInt(32),
                                 !["message_id"] = PyInt(505),
                                 !["des_key"] = PyBytes(des_key)])).val

GsReads == {GsResponse(k) : k \in DesKeys} \cup {Take(GsResponse(<<>>), 10)}

\* a 0x03f6 frame with n chat records
ChatFrame(n) ==
    LET rec == to_bytes(BaseInstance("WorldChatMessage")).val
        RECURSIVE Recs(_)
        Recs(k) == IF k = 0 THEN <<>> ELSE rec \o Recs(k - 1)
    IN  ServerFrame(1014, PackLE(7, 4) \o PackLE(n, 8) \o Recs(n))

\* the frames of the game server: two with an identifier that is not
\* registered, chat frames with no and one record, a chat frame too short for
\* its layout, and a registered frame that has no handler
ServerFrames ==
    {ServerFrame(2457, <<>>), ServerFrame(2457, <<7>>), ChatFrame(0), ChatFrame(1),
     ServerFrame(1014, <<1, 2, 3, 4>>), GsResponse(<<>>)}

Streams == UNION {[1..n -> ServerFrames] : n \in 0..MaxFrames}

RECURSIVE Concat(_)
Concat(frames) == IF Len(frames) = 0 THEN <<>> ELSE frames[1] \o Concat(Tail(frames))

\* a server that is less tidy: its first frame may travel in the segment of
\* its 0x01f9 response, and a header may declare a total length below the 4
\* bytes of the header itself
GsExtras == {<<>>, ServerFrame(2457, <<>>)}

CoalescedGsReads == {GsResponse(<<1, 2, 3, 4, 5, 6, 7, 8>>) \o extra : extra \in GsExtras}

ShortHeader(len) == PackLE(len, 2) \o PackLE(2457, 2)

UntidyFrames == {ServerFrame(2457, <<>>), ShortHeader(0), ShortHeader(3)}

MaxUntidyFrames == 1

UntidyStreams == UNION {[1..n -> UntidyFrames] : n \in 0..MaxUntidyFrames}

\* the lengths reader.read may return when n bytes are still to come
ChunkSizes(n) == {k \in 1..n : k <= MaxChunk \/ k = n}

(***************************************************************************)
(* A chat frame under test: a 0x03f6 frame built by the server is decoded  *)
(* as pick_message decodes it, and the packet is handed to handler_03f6.   *)
(***************************************************************************)
\* the player names and the messages of the records under test: 'a', 'b', 'x', 'y'
ChatRecords == {[name |-> <<c>>, msg |-> <<d>>] : <<c, d>> \in {97, 98} \X {120, 121}}

\* the lengths a sender gives a record: that of the layout, and one byte more
RecordLens == {sizeof("WorldChatMessage"), sizeof("WorldChatMessage") + 1}

\* the bytes of one record: the layout of WorldChatMessage with the player id
\* and the reserved numbers 1, zero-padded to len
ChatRecord(r, len) ==
    Ljust(to_bytes(Instance("WorldChatMessage",
                            [player_id |-> PyInt(1), unknown_1 |-> PyInt(1),
                             unknown_2 |-> PyInt(1),
                             player_name |-> CString_new(r.name, 32).val,
                             message |-> CString_new(r.msg, 128).val,
                             unknown_3 |-> PyInt(1)])).val,
          len)

\* a 0x03f6 frame that announces and carries the records recs, each of len bytes
ChatFrameOf(recs, len) ==
    [records |-> recs, record_len |-> len,
     bytes |-> ServerFrame(1014, PackLE(7, 4) \o PackLE(Len(recs), 8)
                                 \o Concat([i \in 1..Len(recs) |-> ChatRecord(recs[i], len)]))]

ChatFrameInputs ==
    {ChatFrameOf(recs, len) : <<recs, len>> \in SeqsUpTo(ChatRecords, MaxRecords) \X RecordLens}

ChatIdle ==
    /\ chat_frame = ChatFrameOf(<<>>, sizeof("WorldChatMessage"))
    /\ chat_packet = NotYet
    /\ chat_lines = NotYet

\* packet_class.from_bytes(packet_data) of pick_message for the frame
ChatDecode ==
    /\ chat_packet = NotYet
    /\ chat_packet' = from_bytes(get_server_message(Registry, 1014).kls, chat_frame.bytes)
    /\ UNCHANGED <<chat_frame, chat_lines, registry_vars, crypto_vars, codec_vars,
                   session_vars, natives_vars>>

\* self._handlers[packet.message_id](packet) for the decoded packet: the lines
\* it logged, or what it raised
ChatHandle ==
    /\ chat_packet # NotYet
    /\ ~IsExc(chat_packet)
    /\ chat_lines = NotYet
    /\ chat_lines' = Then(handler_03f6([handled |-> <<>>], chat_packet.val),
                          LAMBDA s : Ok(s.handled))
    /\ UNCHANGED <<chat_frame, chat_packet, registry_vars, crypto_vars, codec_vars,
                   session_vars, natives_vars>>

(***************************************************************************)
(* The handshake: NetworkClient.init from its first await.  An exception   *)
(* leaves init and main, which catches only cancellation: the client ends  *)
(* without running shutdown.                                               *)
(***************************************************************************)
Crash(s) == [s EXCEPT !.pc = "crashed"]

Open(conn) == [conn |-> conn, state |-> "open"]

\* NetworkClient.login up to the drain of its send
login(s) ==
    LET auth_key == SizedString_new(s.config.auth_key, 512)
    IN  IF s.config.user_id = 0 THEN Raise("ValueError")
        ELSE IF IsExc(auth_key) THEN auth_key
        ELSE send(s, Instance("ConnectLoginServer",
                              [client_version |-> PyInt(s.config.client_version),
                               user_id |-> PyInt(s.config.user_id),
                               auth_key |-> auth_key.val,
                               game_id |-> PyInt(s.config.game_id),
                               padding |-> PyBytes(Rep(0, 8))]))

\* NetworkClient.login_gs up to the drain of its send
login_gs(s) ==
    LET key == SizedString_new(s.login_key.v, 156)
    IN  IF IsExc(key) THEN key
        ELSE send(s, Instance("ConnectGameServer",
                              [unknown_1 |-> PyInt(0),
                               user_id |-> PyInt(s.config.user_id),
                               login_key |-> key.val,
                               client_sign |-> PyInt(s.config.client_sign),
                               client_version |-> PyInt(s.config.client_version)]))

\* NetworkClient.ack_gs_response up to the drain of its send
ack_gs_response(s) ==
    LET t == tick(s.tick_count)
    IN  send([s EXCEPT !.tick_count = t],
             Instance("AckEncryptionResp",
                      [seq_id |-> PyInt(t), user_id |-> PyInt(s.config.user_id),
                       unknown_1 |-> PyInt(0),
                       platform_lang_id |-> PyInt(s.config.language_id)]))

\* the step of init that ends in the drain of a send
SendStep(s, r, target) == IF IsExc(r) THEN Crash(s) ELSE [r.val EXCEPT !.pc = target]

OtherThanSession ==
    <<registry_vars, crypto_call, crypto_result, codec_vars, natives_vars, chat_vars>>

\* line 67 returns or raises; login runs to its drain
ConnectLogin ==
    /\ pc = "connect_login"
    /\ \E ok \in BOOLEAN :
         LET s == [Sess EXCEPT !.writer = Open("login")]
         IN  Becomes(IF ok THEN SendStep(s, login(s), "drain_login") ELSE Crash(Sess))
    /\ UNCHANGED OtherThanSession

\* the drain of a handshake send returns or raises
HandshakeDrain ==
    /\ pc \in {"drain_login", "drain_gs"}
    /\ \E ok \in BOOLEAN :
         Becomes(IF ~ok THEN Crash(Sess)
                 ELSE [Sess EXCEPT !.pc = IF pc = "drain_login" THEN "read_login"
                                          ELSE "read_gs"])
    /\ UNCHANGED OtherThanSession

\* an init that goes on to the game server without closing the login connection
LoggedIn_keeping_connection(s, login_resp) ==
    IF IsExc(login_resp) THEN Crash(s)
    ELSE [s EXCEPT !.login_key = login_resp.val.f["login_key"], !.pc = "connect_game"]

\* lines 73-82 for what from_bytes returned
LoggedIn(s, login_resp) ==
    IF IsExc(login_resp) THEN Crash(s)
    ELSE [s EXCEPT !.login_key = login_resp.val.f["login_key"],
                   !.writer.state = "closing",
                   !.pc = "close_login"]

\* lines 252-253 and 73-82: the login response is read and decoded, the
\* connection to the login server is closed
ReadLogin ==
    /\ pc = "read_login"
    /\ \E login_data \in LoginReads :
         Becomes(LoggedIn(Sess, from_bytes("RespLoginServerValidate", login_data)))
    /\ UNCHANGED OtherThanSession

\* wait_closed of line 82 returns
CloseLogin ==
    /\ pc = "close_login"
    /\ Becomes([Sess EXCEPT !.writer.state = "closed", !.pc = "connect_game"])
    /\ UNCHANGED OtherThanSession

\* line 88 returns or raises; login_gs runs to its drain
ConnectGame ==
    /\ pc = "connect_game"
    /\ \E ok \in BOOLEAN :
         LET s == [Sess EXCEPT !.writer = Open("game")]
         IN  Becomes(IF ok THEN SendStep(s, login_gs(s), "drain_gs") ELSE Crash(Sess))
    /\ UNCHANGED OtherThanSession

\* line 97: the acknowledgement is sent from the keyed state s
Acked(s) == SendStep(s, ack_gs_response(s), "drain_ack")

\* lines 94-97 for what CryptoManager.init did
Keyed(s, cipher) ==
    IF IsExc(cipher) THEN Crash(s)
    ELSE Acked([s EXCEPT !.des_cipher = cipher.val, !.gs_authed = TRUE])

\* lines 92-94 for what from_bytes returned
GsLoggedIn(s, login_resp) ==
    IF IsExc(login_resp) THEN Crash(s)
    ELSE Keyed(s, CryptoManager_init(login_resp.val.f["des_key"].v))

\* lines 268-269 and 92-97 for what reader.read(1024) returned: from_bytes
\* decodes the bytes of the layout and drops the rest
GsRead(s, login_data) ==
    GsLoggedIn([s EXCEPT !.gs_login_resp =
                             from_bytes("RespGameServerLoginResp", login_data),
                         !.gs_extra =
                             Drop(login_data,
                                  SumSizes(STRUCT_FORMAT("RespGameServerLoginResp")))],
               from_bytes("RespGameServerLoginResp", login_data))

\* lines 268-269 and 92-97: the response is read and decoded, the crypto
\* session is keyed, the acknowledgement is sent
ReadGs ==
    /\ pc = "read_gs"
    /\ \E login_data \in GsReads : Becomes(GsRead(Sess, login_data))
    /\ UNCHANGED OtherThanSession

\* the same read when the server's first frame arrives in the segment of its
\* response
ReadGsCoalesced ==
    /\ pc = "read_gs"
    /\ \E login_data \in CoalescedGsReads : Becomes(GsRead(Sess, login_data))
    /\ UNCHANGED OtherThanSession

\* line 102 and run_main_loop to its first suspension point, the server
\* sending frames from here on
Started(s, frames) ==
    LoopTop([s EXCEPT !.rx_pc = "start", !.sent_frames = frames,
                      !.stream = Concat(frames)])

\* the drain of the acknowledgement returns or raises; line 102 creates the
\* receive task and run_main_loop runs to its first suspension.  The frames
\* the server sends from here on are chosen here.
DrainAck ==
    /\ pc = "drain_ack"
    /\ \E ok \in BOOLEAN, frames \in Streams :
         Becomes(IF ~ok THEN Crash(Sess) ELSE Started(Sess, frames))
    /\ UNCHANGED OtherThanSession

\* the same step when the server goes on with frames of UntidyStreams
DrainAckUntidy ==
    /\ pc = "drain_ack"
    /\ \E ok \in BOOLEAN, frames \in UntidyStreams :
         Becomes(IF ~ok THEN Crash(Sess) ELSE Started(Sess, frames))
    /\ UNCHANGED OtherThanSession

(***************************************************************************)
(* The dispatch loop: run_main_loop and shutdown.                          *)
(***************************************************************************)
\* the suspension points of run_main_loop before shutdown
LoopPoints == {"sleep", "wait_lock_idle", "wait_lock_pick", "drain_notify", "drain_active"}

\* asyncio.sleep(0.1) of line 153 or 159 returns
Wake ==
    /\ pc = "sleep"
    /\ NoTaskReady
    /\ Becomes(LoopTop(Sess))
    /\ UNCHANGED OtherThanSession

\* the dispatch loop waits for the lock, at line 133 or in pick_message
MainWaiting == pc \in {"wait_lock_idle", "wait_lock_pick"}

\* the lock's release woke the dispatch loop: it enters the block it waited for
MainGetsLock ==
    /\ MainWaiting
    /\ Granted(Sess, "main")
    /\ Becomes(IF pc = "wait_lock_idle" THEN IdleCheck(Acquire(Sess, "main"))
               ELSE Dispatch(Acquire(Sess, "main")))
    /\ UNCHANGED OtherThanSession

\* an exception that leaves the loop with the lock still held
Failed_holding_lock(s) == shutdown(s)

\* an exception raised inside the lock's block of lines 133-149: the block
\* releases the lock, line 160 catches, finally runs shutdown
Failed(s) == shutdown(Release(s))

\* the drain of notify_game_init_complete returns or raises; send_active runs
\* to its drain
DrainNotify ==
    /\ pc = "drain_notify"
    /\ NoTaskReady
    /\ \E ok \in BOOLEAN :
         Becomes(IF ok THEN TickAndSend(Sess, "Active", <<>>, "drain_active")
                 ELSE Failed(Sess))
    /\ UNCHANGED OtherThanSession

\* the drain of send_active returns or raises
DrainActive ==
    /\ pc = "drain_active"
    /\ NoTaskReady
    /\ \E ok \in BOOLEAN :
         Becomes(IF ok THEN AfterActive(Sess) ELSE Failed(Sess))
    /\ UNCHANGED OtherThanSession

\* the main task is cancelled at a suspension point of its loop: the lock's
\* block releases the lock, a wait for the lock is given up, finally runs
MainCancelled ==
    /\ pc \in LoopPoints
    /\ Becomes(shutdown([Sess EXCEPT
                  !.lock_holder = IF @ = "main" THEN "none" ELSE @,
                  !.lock_waiters = SelectSeq(@, LAMBDA w : w # "main")]))
    /\ UNCHANGED OtherThanSession

\* task.cancel() on a task that has not finished: cancelled is raised in it at
\* its suspension point, and a wait for the lock is given up
Cancel(task_pc) == IF task_pc \in {"none", "done"} THEN task_pc ELSE "cancelled"

\* the sleep of line 278 returns: lines 280-286 up to wait_closed
GraceOver ==
    /\ pc = "grace"
    /\ NoTaskReady
    /\ Becomes([Sess EXCEPT !.rx_pc = Cancel(@), !.chat_pc = Cancel(@),
                            !.lock_waiters = SelectSeq(@, LAMBDA w : w # "rx"),
                            !.writer.state = "closing",
                            !.pc = "wait_closed"])
    /\ UNCHANGED OtherThanSession

\* wait_closed of line 286 returns; the http client is shut down
Closed ==
    /\ pc = "wait_closed"
    /\ NoTaskReady
    /\ Becomes([Sess EXCEPT !.writer.state = "closed", !.pc = "closed"])
    /\ UNCHANGED OtherThanSession

\* time passes: the seconds since the last receipt, as far as line 138 tells
\* them apart
ClockAdvance ==
    /\ pc \in LoopPoints
    /\ NoTaskReady
    /\ last_recv_time > 0
    /\ ~notified
    /\ recv_age <= IdleSeconds
    /\ Becomes([Sess EXCEPT !.recv_age = @ + 1,
                            !.small_age = IF pc \in {"drain_notify", "drain_active"} THEN @
                                          ELSE Min(@ + 1, IdleSeconds + 1)])
    /\ UNCHANGED OtherThanSession

(***************************************************************************)
(* The receive task and the chat task.                                     *)
(***************************************************************************)
\* an append that puts the new bytes in front of the buffered ones
Append_at_front(s, data) ==
    LET s1 == Release([s EXCEPT !.pending_buffer = data \o @,
                                !.last_recv_time = 1,
                                !.recv_age = 0,
                                !.rx_data = <<>>])
    IN  [s1 EXCEPT !.rx_pc = IF s1.shutdown_set THEN "done" ELSE "recv"]

\* lines 109-111 with the lock held, then the test of line 105
Append_(s, data) ==
    LET s1 == Release([s EXCEPT !.pending_buffer = @ \o data,
                                !.last_recv_time = 1,
                                !.recv_age = 0,
                                !.rx_data = <<>>])
    IN  [s1 EXCEPT !.rx_pc = IF s1.shutdown_set THEN "done" ELSE "recv"]

\* the receive task runs for the first time: the test of line 105
RxStart ==
    /\ rx_pc = "start"
    /\ Becomes([Sess EXCEPT !.rx_pc = IF shutdown_set THEN "done" ELSE "recv"])
    /\ UNCHANGED OtherThanSession

\* recv returns the next bytes of the stream; the lock is taken or waited for
RxRecv ==
    /\ rx_pc = "recv"
    /\ NoTaskReady
    /\ \E k \in ChunkSizes(Len(stream) - rx_pos) :
         LET data == SubSeq(stream, rx_pos + 1, rx_pos + k)
             s == [Sess EXCEPT !.rx_pos = @ + k]
         IN  Becomes(IF CanAcquire(s) THEN Append_(Acquire(s, "rx"), data)
                     ELSE [WaitForLock(s, "rx") EXCEPT !.rx_data = data,
                                                       !.rx_pc = "wait_lock"])
    /\ UNCHANGED OtherThanSession

\* recv raises: lines 112-115
RxError ==
    /\ rx_pc = "recv"
    /\ NoTaskReady
    /\ Becomes([Sess EXCEPT !.rx_pc = "done"])
    /\ UNCHANGED OtherThanSession

\* the lock's release woke the receive task
RxGetsLock ==
    /\ rx_pc = "wait_lock"
    /\ Granted(Sess, "rx")
    /\ Becomes(Append_(Acquire(Sess, "rx"), rx_data))
    /\ UNCHANGED OtherThanSession

\* the chat task runs from the test of line 118 to the drain of its send
ChatSent(s, r) ==
    IF IsExc(r) THEN [s EXCEPT !.chat_pc = "done"] ELSE [r.val EXCEPT !.chat_pc = "drain"]

\* lines 120-123 from the state s, in which _tick has run
ChatPoll(s) ==
    ChatSent(s, send(s, Instance("GetSelectChat",
                                 SeqOnly(s.tick_count) @@ ("channel_id" :> PyInt(7)))))

\* a chat loop that sends without looking at the shutdown signal
ChatLoopTop_unchecked(s) == ChatPoll([s EXCEPT !.tick_count = tick(s.tick_count)])

\* _chat_loop from the test of line 118 to the drain of its send
ChatLoopTop(s) ==
    IF s.shutdown_set THEN [s EXCEPT !.chat_pc = "done"]
    ELSE ChatPoll([s EXCEPT !.tick_count = tick(s.tick_count)])

\* the chat task runs for the first time, or its sleep of line 124 returns
ChatSend ==
    /\ chat_pc \in {"start", "sleep"}
    /\ chat_pc = "sleep" => NoTaskReady
    /\ shutdown_set \/ tick_count < MaxTicks
    /\ Becomes(ChatLoopTop(Sess))
    /\ UNCHANGED OtherThanSession

\* a chat task whose error ends the session
ChatDrained_shutting_down(s, ok) ==
    IF ok THEN [s EXCEPT !.chat_pc = "sleep"]
    ELSE [s EXCEPT !.chat_pc = "done", !.shutdown_set = TRUE]

\* lines 124-128 for what the drain of line 210 did: the task sleeps, or
\* logs the error and ends
ChatDrained(s, ok) == [s EXCEPT !.chat_pc = IF ok THEN "sleep" ELSE "done"]

\* the drain of the chat send returns or raises
ChatDrain ==
    /\ chat_pc = "drain"
    /\ NoTaskReady
    /\ \E ok \in BOOLEAN : Becomes(ChatDrained(Sess, ok))
    /\ UNCHANGED OtherThanSession

SessionIdle ==
    /\ pending_buffer = <<>>
    /\ lock_holder = "none"
    /\ lock_waiters = <<>>
    /\ shutdown_set = FALSE
    /\ tick_count = 0
    /\ gs_authed = FALSE
    /\ last_recv_time = 0
    /\ notified = FALSE
    /\ login_key = None
    /\ pc = "connect_login"
    /\ rx_pc = "none"
    /\ chat_pc = "none"
    /\ rx_data = <<>>
    /\ writer = [conn |-> "none", state |-> "closed"]
    /\ stream = <<>>
    /\ sent_frames = <<>>
    /\ rx_pos = 0
    /\ recv_age = 0
    /\ wire = <<>>
    /\ last_frame = <<>>
    /\ last_packet = None
    /\ extracted = <<>>
    /\ last_pick = None
    /\ handled = <<>>
    /\ gs_login_resp = None
    /\ small_age = 0
    /\ idle_fired = None
    /\ gs_extra = <<>>

(***************************************************************************)
(* The specifications.                                                     *)
(***************************************************************************)
\* the first configuration: the other specifications leave the session alone
FixedConfig == config = CHOOSE c \in Configs : c.user_id # 0

InitRegistry == RegistryIdle /\ CryptoIdle /\ CodecIdle /\ NativesIdle /\ ChatIdle /\ SessionIdle /\ FixedConfig
NextRegistry == RegisterClient \/ RegisterServer
SpecRegistry == InitRegistry /\ [][NextRegistry]_vars

InitCrypto == RegistryIdle /\ CryptoIdle /\ CodecIdle /\ NativesIdle /\ ChatIdle /\ SessionIdle /\ FixedConfig
NextCrypto == CryptoInit \/ CryptoEncrypt \/ CryptoDecrypt \/ CryptoDecryptEncrypted
SpecCrypto == InitCrypto /\ [][NextCrypto]_vars

InitNatives == RegistryIdle /\ CryptoIdle /\ CodecIdle /\ NativesIdle /\ ChatIdle /\ SessionIdle /\ FixedConfig
NextNatives == NativesSizedString \/ NativesSizedBytes \/ NativesPackField \/ NativesCString
SpecNatives == InitNatives /\ [][NextNatives]_vars

InitChat ==
    /\ RegistryIdle
    /\ CryptoIdle
    /\ CodecIdle
    /\ NativesIdle
    /\ chat_frame \in ChatFrameInputs
    /\ chat_packet = NotYet
    /\ chat_lines = NotYet
    /\ SessionIdle
    /\ FixedConfig
NextChat == ChatDecode \/ ChatHandle
SpecChat == InitChat /\ [][NextChat]_vars

InitCodec ==
    /\ RegistryIdle
    /\ CryptoIdle
    /\ codec_x \in CodecInputs
    /\ codec_bytes = NotYet
    /\ codec_y = NotYet
    /\ NativesIdle
    /\ ChatIdle
    /\ SessionIdle
    /\ FixedConfig
NextCodec == CodecEncode \/ CodecDecode
SpecCodec == InitCodec /\ [][NextCodec]_vars

\* the session: the client as constructed, about to connect to the login server
Init ==
    /\ messages = Registry.messages
    /\ cls_attrs = Registry.attrs
    /\ reg_call = NoCall
    /\ reg_result = "none"
    /\ reg_prev = Registry.messages
    /\ CryptoIdle
    /\ CodecIdle
    /\ NativesIdle
    /\ ChatIdle
    /\ SessionIdle
    /\ config \in Configs
Next ==
    \/ ConnectLogin \/ HandshakeDrain \/ ReadLogin \/ CloseLogin \/ ConnectGame
    \/ ReadGs \/ DrainAck
    \/ Wake \/ MainGetsLock \/ DrainNotify \/ DrainActive \/ MainCancelled
    \/ GraceOver \/ Closed \/ ClockAdvance
    \/ RxStart \/ RxRecv \/ RxError \/ RxGetsLock
    \/ ChatSend \/ ChatDrain
Spec == Init /\ [][Next]_vars

\* the session with the less tidy server, under the scheduling of the event
\* loop: a task that is ready runs, a timer that is due fires, a drain and
\* wait_closed return.  Nothing obliges the server to send, the socket to
\* fail or the user to interrupt.
NextFair ==
    \/ ConnectLogin \/ HandshakeDrain \/ ReadLogin \/ CloseLogin \/ ConnectGame
    \/ ReadGsCoalesced \/ DrainAckUntidy
    \/ Wake \/ MainGetsLock \/ DrainNotify \/ DrainActive \/ MainCancelled
    \/ GraceOver \/ Closed \/ ClockAdvance
    \/ RxStart \/ RxRecv \/ RxError \/ RxGetsLock
    \/ ChatSend \/ ChatDrain
\* ENABLED <<A>>_vars for the steps that run a send or a dispatch: the guard
\* of A, and for Wake, whose round of the loop may find nothing to do and
\* leave every variable as it is, that the round changes one
WakeReady == pc = "sleep" /\ NoTaskReady /\ Changes(LoopTop(Sess))
MainGetsLockReady == MainWaiting /\ Granted(Sess, "main")
DrainNotifyReady == pc = "drain_notify" /\ NoTaskReady
DrainActiveReady == pc = "drain_active" /\ NoTaskReady
ChatSendReady ==
    /\ chat_pc \in {"start", "sleep"}
    /\ chat_pc = "sleep" => NoTaskReady
    /\ shutdown_set \/ tick_count < MaxTicks

\* weak fairness of every step of the event loop; for the steps above it is
\* written out, []<>~ENABLED <<A>>_vars \/ []<><<A>>_vars
Fairness ==
    /\ WF_vars(GraceOver) /\ WF_vars(Closed) /\ WF_vars(ClockAdvance)
    /\ WF_vars(RxStart) /\ WF_vars(RxGetsLock) /\ WF_vars(ChatDrain)
    /\ ([]<>~WakeReady \/ []<><<Wake>>_vars)
    /\ ([]<>~MainGetsLockReady \/ []<><<MainGetsLock>>_vars)
    /\ ([]<>~DrainNotifyReady \/ []<><<DrainNotify>>_vars)
    /\ ([]<>~DrainActiveReady \/ []<><<DrainActive>>_vars)
    /\ ([]<>~ChatSendReady \/ []<><<ChatSend>>_vars)
SpecFair == Init /\ [][NextFair]_vars /\ Fairness

(***************************************************************************)
(* Properties of the packet registry.                                      *)
(***************************************************************************)
\* identifier id is registered in direction dir of msgs to a class other than kls
IdRegistered(msgs, dir, id, kls) ==
    IF dir = "client"
    THEN \E name \in DOMAIN msgs.client : msgs.client[name] = id /\ name # kls
    ELSE id \in DOMAIN msgs.server /\ msgs.server[id] # kls

\* no identifier belongs to two classes of one direction
UniqueIds(msgs) ==
    \A n1, n2 \in DOMAIN msgs.client : msgs.client[n1] = msgs.client[n2] => n1 = n2

\* C3: registering a class under an identifier that is already registered in
\* the same direction raises an error and leaves the registry as it was, and
\* in every state an identifier maps to at most one class per direction.
C3_DuplicateIdentifierRejected ==
    /\ (reg_call.n > 0 /\ IdRegistered(reg_prev, reg_call.dir, reg_call.id, reg_call.kls))
          => (reg_result = "ValueError" /\ messages = reg_prev)
    /\ UniqueIds(messages)

\* a second class was registered under an identifier of the server direction
C3_Witness ==
    /\ reg_call.n > 0
    /\ reg_call.dir = "server"
    /\ IdRegistered(reg_prev, reg_call.dir, reg_call.id, reg_call.kls)
    /\ reg_result = "ok"
    /\ messages.server[reg_call.id] = reg_call.kls

(***************************************************************************)
(* Properties of the crypto session.                                       *)
(***************************************************************************)
\* the length of the whole blocks at the front of data
AlignedLen(data) == (Len(data) \div BlockSize) * BlockSize

\* C4: on an initialized session decrypt(encrypt(x)) is x, byte for byte, for
\* x of every length, 0 and the lengths that are no multiple of 8 included.
C4_DecryptInvertsEncrypt ==
    (crypto_call.op = "decrypt" /\ crypto_call.chained /\ crypto_call.src_cipher # NoCipher)
        => crypto_result = Ok(crypto_call.src)

\* a round trip of an input of more than one block and a tail
C4_Witness ==
    /\ crypto_call.op = "decrypt"
    /\ crypto_call.chained
    /\ crypto_call.src_cipher # NoCipher
    /\ Len(crypto_call.src) > BlockSize
    /\ Len(crypto_call.src) % BlockSize # 0
    /\ crypto_call.data # crypto_call.src
    /\ crypto_result = Ok(crypto_call.src)

\* C5: on an initialized session encrypt(x) and decrypt(x) are as long as x,
\* their first 8 * floor(len(x) / 8) bytes are the cipher's image of those
\* bytes of x, and the last len(x) mod 8 bytes are those of x, in place.
C5_WholeBlocksOnly ==
    (crypto_call.op \in {"encrypt", "decrypt"} /\ crypto_call.cipher # NoCipher)
        => /\ ~IsExc(crypto_result)
           /\ Len(crypto_result.val) = Len(crypto_call.data)
           /\ Drop(crypto_result.val, AlignedLen(crypto_call.data))
                 = Drop(crypto_call.data, AlignedLen(crypto_call.data))
           /\ Take(crypto_result.val, AlignedLen(crypto_call.data))
                 = IF crypto_call.op = "encrypt"
                   THEN EcbEncrypt(crypto_call.cipher,
                                   Take(crypto_call.data, AlignedLen(crypto_call.data))).val
                   ELSE EcbDecrypt(crypto_call.cipher,
                                   Take(crypto_call.data, AlignedLen(crypto_call.data))).val

\* an encrypt of two blocks and a tail of one byte
C5_Witness ==
    /\ crypto_call.op = "encrypt"
    /\ crypto_call.cipher # NoCipher
    /\ Len(crypto_call.data) = 2 * BlockSize + 1
    /\ ~IsExc(crypto_result)
    /\ crypto_result.val[Len(crypto_call.data)] = crypto_call.data[Len(crypto_call.data)]
    /\ Take(crypto_result.val, BlockSize) # Take(crypto_call.data, BlockSize)

\* C6: encrypt and decrypt on a session that was not initialized raise an
\* error, return no bytes and leave the session uninitialized.
C6_UninitializedRejects ==
    (crypto_call.op \in {"encrypt", "decrypt"} /\ crypto_call.cipher = NoCipher)
        => (crypto_result = Raise("RuntimeError") /\ des_cipher = NoCipher)

\* a decrypt of a non-empty input before any init
C6_Witness ==
    /\ crypto_call.op = "decrypt"
    /\ crypto_call.cipher = NoCipher
    /\ Len(crypto_call.data) > 0
    /\ crypto_result = Raise("RuntimeError")
    /\ des_cipher = NoCipher

(***************************************************************************)
(* Properties of the message codec.                                        *)
(***************************************************************************)
\* two field values are equal, trailing zero padding of strings and bytes aside
PlainEq(u, v) ==
    \/ u.t = "int" /\ v.t = "int" /\ u.v = v.v
    \/ IsStr(u) /\ IsStr(v) /\ Rstrip(u.v) = Rstrip(v.v)
    \/ IsBytes(u) /\ IsBytes(v) /\ Rstrip(u.v) = Rstrip(v.v)

\* two instances without list fields are equal field by field
RecordEq(a, b) ==
    /\ a.cls = b.cls
    /\ \A i \in 1..Len(Fields(a.cls)) :
          LET name == Fields(a.cls)[i].name
          IN  /\ name \in DOMAIN a.f
              /\ name \in DOMAIN b.f
              /\ PlainEq(a.f[name], b.f[name])

\* two instances are equal field by field, a list field record by record
InstanceEq(a, b) ==
    /\ a.cls = b.cls
    /\ \A i \in 1..Len(Fields(a.cls)) :
          LET name == Fields(a.cls)[i].name
          IN  /\ name \in DOMAIN a.f
              /\ name \in DOMAIN b.f
              /\ IF a.f[name].t = "list" \/ b.f[name].t = "list"
                 THEN /\ a.f[name].t = b.f[name].t
                      /\ Len(a.f[name].v) = Len(b.f[name].v)
                      /\ \A k \in 1..Len(a.f[name].v) : RecordEq(a.f[name].v[k], b.f[name].v[k])
                 ELSE PlainEq(a.f[name], b.f[name])

\* C10: for every registered layout and every instance x within the size
\* constraints, x.to_bytes() succeeds and from_bytes of it is an instance
\* equal to x field by field, trailing zero padding aside.
C10_RoundTrip ==
    /\ codec_bytes # NotYet => ~IsExc(codec_bytes)
    /\ codec_y # NotYet => (~IsExc(codec_y) /\ InstanceEq(codec_y.val, codec_x))

\* a GetWorldChat with one record was encoded and decoded
C10_Witness ==
    /\ codec_x.cls = "GetWorldChat"
    /\ Len(codec_x.f["messages"].v) = 1
    /\ codec_y # NotYet
    /\ ~IsExc(codec_y)
    /\ "messages" \notin DOMAIN codec_y.val.f

\* the layouts without a dynamic tail do round-trip
RoundTripFixedLayouts ==
    (codec_y # NotYet /\ codec_x.cls # "GetWorldChat")
        => (~IsExc(codec_y) /\ InstanceEq(codec_y.val, codec_x))

(***************************************************************************)
(* Properties of the session.                                              *)
(***************************************************************************)
\* the bytes of the stream the receive task has appended to the buffer
Appended == rx_pos - Len(rx_data)

\* the length of the first n frames the server sent
FramesLen(n) == Len(Concat(SubSeq(sent_frames, 1, n)))

\* C1: the frames pick_message extracts are, in order and byte for byte, the
\* frames the server sent, however their bytes were split into chunks; a
\* frame is extracted once, and only when all its bytes have been appended:
\* an attempt made before returns no frame and leaves the buffer as it was.
C1_FramingWithPartialDelivery ==
    /\ Len(extracted) <= Len(sent_frames)
    /\ extracted = SubSeq(sent_frames, 1, Len(extracted))
    /\ FramesLen(Len(extracted)) <= Appended
    /\ pending_buffer = SubSeq(stream, FramesLen(Len(extracted)) + 1, Appended)
    /\ (last_pick # None /\ ~last_pick.took)
          => /\ last_pick.after = last_pick.before
             /\ last_pick.packet = Ok(None)
             /\ \/ Len(extracted) = Len(sent_frames)
                \/ Appended < FramesLen(Len(extracted) + 1)

\* a frame was extracted, and an attempt that found only the first bytes of
\* the next frame returned no frame
C1_Witness ==
    /\ Len(extracted) >= 1
    /\ last_pick # None
    /\ ~last_pick.took
    /\ Len(last_pick.before) >= 1
    /\ Appended < FramesLen(Len(extracted) + 1)

\* buf starts with a complete frame whose identifier is not registered
UnknownFrameAtFront(buf) ==
    /\ Len(buf) >= 4
    /\ Len(buf) >= UnpackLE(SubSeq(buf, 1, 2))
    /\ UnpackLE(SubSeq(buf, 3, 4)) \notin DOMAIN Registry.messages.server

\* C2: when the buffer starts with a complete frame whose identifier is not
\* registered in the server direction, pick_message removes exactly that
\* frame's bytes, returns no message, no handler runs, nothing is raised and
\* the dispatch loop goes on to its next round.
C2_UnknownIdentifierConsumed ==
    (last_pick # None /\ UnknownFrameAtFront(last_pick.before))
        => /\ last_pick.after
                 = Drop(last_pick.before, UnpackLE(SubSeq(last_pick.before, 1, 2)))
           /\ Len(last_pick.after)
                 = Len(last_pick.before) - UnpackLE(SubSeq(last_pick.before, 1, 2))
           /\ last_pick.packet = Ok(None)
           /\ ~last_pick.handler
           /\ ~last_pick.raised
           /\ pc = "sleep"
           /\ ~shutdown_set

\* an unknown frame was consumed and the bytes behind it stayed in the buffer
C2_Witness ==
    /\ last_pick # None
    /\ UnknownFrameAtFront(last_pick.before)
    /\ Len(last_pick.after) > 0
    /\ pending_buffer = last_pick.after
    /\ pc = "sleep"

\* the identifier in the header of the frame written last
LastId == UnpackLE(SubSeq(last_frame, 3, 4))

\* the identifiers registered with and without encryption
EncryptedIds ==
    {Registry.attrs[k].message_id : k \in {c \in DOMAIN Registry.attrs :
                                              Registry.attrs[c].encrypted}}
PlainIds ==
    {Registry.attrs[k].message_id : k \in {c \in DOMAIN Registry.attrs :
                                              ~Registry.attrs[c].encrypted}}

\* C7: a frame written with an identifier registered as encrypted (0x03ed,
\* 0x03f8, 0x03eb, 0x042c) is written when the crypto session is keyed and
\* its body is what CryptoManager.encrypt returns for the encoded message; a
\* frame with an identifier registered as not encrypted (0x0232, 0x01f7)
\* carries the encoded message itself.
C7_EncryptedPerRegistryFlag ==
    /\ EncryptedIds = {1005, 1016, 1003, 1068}
    /\ PlainIds = {562, 503}
    /\ last_packet # None
          => /\ LastId \in EncryptedIds \cup PlainIds
             /\ LastId \in EncryptedIds
                   => /\ last_packet.cipher # NoCipher
                      /\ gs_authed
                      /\ Drop(last_frame, 4)
                            = encrypt(last_packet.cipher, to_bytes(last_packet.packet).val).val
                      /\ decrypt(last_packet.cipher, Drop(last_frame, 4))
                            = to_bytes(last_packet.packet)
             /\ LastId \in PlainIds
                   => Drop(last_frame, 4) = to_bytes(last_packet.packet).val

\* the acknowledgement was written, and its body is not the encoded message
C7_Witness ==
    /\ last_packet # None
    /\ LastId = 1005
    /\ Drop(last_frame, 4) # to_bytes(last_packet.packet).val
    /\ wire[1].id = 562

\* the frames on the socket of the game server that carry a sequence id
SeqFrames ==
    SelectSeq(wire, LAMBDA w : \E k \in SeqClasses : Registry.attrs[k].message_id = w.id)

\* a < b for two unsigned little-endian numbers of the same width
LessLE(a, b) ==
    \E i \in 1..Len(a) : a[i] < b[i] /\ \A j \in (i + 1)..Len(a) : a[j] = b[j]

\* C8: the sequence ids of the frames written are pairwise distinct and
\* strictly increasing in the order of the writes, whichever task wrote
\* them, and all of them were drawn from the one counter, which has not gone
\* back behind any of them.
C8_SequenceIdsIncrease ==
    /\ \A i \in 1..Len(SeqFrames) : Len(SeqFrames[i].seq) = 4
    /\ \A i, j \in 1..Len(SeqFrames) : i < j => LessLE(SeqFrames[i].seq, SeqFrames[j].seq)
    /\ \A i \in 1..Len(SeqFrames) :
          /\ LessLE(PackLE(0, 4), SeqFrames[i].seq)
          /\ ~LessLE(PackLE(tick_count, 4), SeqFrames[i].seq)
    /\ Len(SeqFrames) <= tick_count

\* the dispatch loop has sent its three messages and the chat task two polls
C8_Witness ==
    /\ Len(SeqFrames) >= 5
    /\ SeqFrames[3].id = 1003
    /\ SeqFrames[4].id = 1068
    /\ SeqFrames[5].id = 1068
    /\ SeqFrames[4].seq = PackLE(4, 4)
    /\ SeqFrames[5].seq = PackLE(5, 4)

\* C9: a frame is written in one write; its first 16 bits, little-endian, are
\* the length of the body behind the header plus 4, its next 16 bits the
\* identifier registered for the class of the message, and the body is as
\* long as the encoded message, encrypted or not.
C9_HeaderAndSingleWrite ==
    last_packet # None
        => /\ Len(last_frame) >= 4
           /\ UnpackLE(SubSeq(last_frame, 1, 2)) = Len(Drop(last_frame, 4)) + 4
           /\ PyInt(LastId)
                 = get_id_for_client_message(Registry, last_packet.packet.cls)
           /\ Len(Drop(last_frame, 4)) = Len(to_bytes(last_packet.packet).val)
           /\ Len(wire) >= 1
           /\ wire[Len(wire)].size = Len(last_frame)
           /\ wire[Len(wire)].id = LastId

\* an unencrypted and an encrypted frame have been written, the last one a
\* chat poll of 8 bytes behind its header
C9_Witness ==
    /\ last_packet # None
    /\ wire[1].id = 562
    /\ LastId = 1068
    /\ Len(last_frame) = 12
    /\ SubSeq(last_frame, 1, 4) = <<12, 0, 44, 4>>


\* the total length declared in the first two bytes of buf
DeclaredLength(buf) == UnpackLE(SubSeq(buf, 1, 2))

\* C14: a pick_message attempt made when fewer than 4 bytes are buffered, or
\* when the length declared in the first two bytes exceeds the number of
\* buffered bytes, returns no frame and leaves the buffer byte for byte as it
\* was.
C14_NoFrameLeavesBuffer ==
    (/\ last_pick # None
     /\ \/ Len(last_pick.before) < 4
        \/ DeclaredLength(last_pick.before) > Len(last_pick.before))
        => /\ ~last_pick.took
           /\ last_pick.packet = Ok(None)
           /\ last_pick.after = last_pick.before
           /\ pending_buffer = last_pick.before
           /\ Len(extracted) = last_pick.frames_before

\* an attempt found a header and part of the body, and another fewer than 4 bytes
C14_Witness ==
    /\ last_pick # None
    /\ Len(last_pick.before) > 4
    /\ DeclaredLength(last_pick.before) > Len(last_pick.before)
    /\ pending_buffer = last_pick.before
    /\ pc = "sleep"

\* C15: when at least 4 bytes are buffered and the declared total length L is
\* not more than the buffered length, pick_message removes exactly the first
\* L bytes as the frame and leaves the rest, in order, as the new buffer;
\* complete frames are extracted one per attempt, in the order of arrival.
C15_TakesFirstFrame ==
    (/\ last_pick # None
     /\ Len(last_pick.before) >= 4
     /\ DeclaredLength(last_pick.before) <= Len(last_pick.before))
        => /\ last_pick.took
           /\ Len(extracted) = last_pick.frames_before + 1
           /\ Len(extracted[Len(extracted)]) = DeclaredLength(last_pick.before)
           /\ extracted[Len(extracted)] \o last_pick.after = last_pick.before
           /\ pending_buffer = last_pick.after
           /\ Len(extracted) <= Len(sent_frames)
           /\ extracted[Len(extracted)] = sent_frames[Len(extracted)]

\* two complete frames were buffered: the attempt took the first, the second
\* is still in the buffer
C15_Witness ==
    /\ last_pick # None
    /\ last_pick.took
    /\ Len(sent_frames) = 2
    /\ Len(extracted) = 1
    /\ extracted[1] = sent_frames[1]
    /\ pending_buffer = sent_frames[2]
    /\ last_pick.before = stream

\* the buffer grew by bytes of the stream at its back
GrewAtBack ==
    /\ extracted' = extracted
    /\ Appended' > Appended
    /\ pending_buffer' = pending_buffer \o SubSeq(stream, Appended + 1, Appended')

\* the buffer shrank by one frame at its front
ShrankAtFront ==
    /\ Appended' = Appended
    /\ Len(extracted') = Len(extracted) + 1
    /\ SubSeq(extracted', 1, Len(extracted)) = extracted
    /\ pending_buffer = extracted'[Len(extracted')] \o pending_buffer'

\* C16, as stated: the frames removed so far followed by the buffer are the
\* bytes the receive task has read from the socket so far.
C16_BufferIsAllRead ==
    rx_pc # "none" => Concat(extracted) \o pending_buffer = SubSeq(stream, 1, rx_pos)

\* C16, amended: the frames removed so far, the buffer, and the chunk the
\* receive task holds while it waits for the buffer lock are, in this order,
\* the bytes read from the socket so far; the buffer changes only by an
\* append of read bytes at its back or the removal of one frame at its front,
\* the first by the receive task and never while the dispatch loop holds the
\* lock, the second by the dispatch loop and never while the receive task
\* holds it.
C16_BufferConserved ==
    /\ [](rx_pc # "none"
            => Concat(extracted) \o pending_buffer \o rx_data = SubSeq(stream, 1, rx_pos))
    /\ [][pending_buffer' # pending_buffer
            => \/ GrewAtBack /\ lock_holder # "main"
               \/ ShrankAtFront /\ lock_holder # "rx"]_vars

\* a frame has been removed, and the receive task holds bytes of the next one
\* while the dispatch loop has the lock
C16_Witness ==
    /\ Len(extracted) >= 1
    /\ rx_pc = "wait_lock"
    /\ lock_holder = "main"
    /\ Len(rx_data) > 0
    /\ Concat(extracted) \o pending_buffer # SubSeq(stream, 1, rx_pos)

\* the suspension points of init
HandshakePoints ==
    {"connect_login", "drain_login", "read_login", "close_login", "connect_game",
     "drain_gs", "read_gs", "drain_ack"}

\* the first three writes of a session: what is written, and to which server
HandshakeIds == <<562, 503, 1005>>
HandshakeConns == <<"login", "game", "game">>

\* the positions of the writes of identifier id
WritesOf(id) == {i \in 1..Len(wire) : wire[i].id = id}

\* what has happened at startup happened in order
StartupInOrder ==
    /\ \A i \in 1..Len(wire) :
          IF i <= 3 THEN wire[i].id = HandshakeIds[i] /\ wire[i].conn = HandshakeConns[i]
          ELSE wire[i].id \notin {562, 503, 1005} /\ wire[i].conn = "game"
    /\ writer.conn = "game" => Len(wire) >= 1
    /\ des_cipher # NoCipher
          => /\ Len(wire) >= 2
             /\ gs_login_resp # None
             /\ ~IsExc(gs_login_resp)
             /\ Ok(des_cipher) = CryptoManager_init(gs_login_resp.val.f["des_key"].v)
    /\ Len(wire) >= 3 => (des_cipher # NoCipher /\ gs_authed)
    /\ rx_pc # "none" => (Len(wire) >= 3 /\ pc \notin HandshakePoints \cup {"crashed"})
    /\ pc = "crashed" => (rx_pc = "none" /\ chat_pc = "none" /\ Len(wire) <= 3)

\* a step of startup starts from where the step before it ended, and nothing
\* follows a failure
StartupStep ==
    /\ (writer'.conn = "game" /\ writer.conn # "game")
          => writer = [conn |-> "login", state |-> "closed"]
    /\ des_cipher' # des_cipher => (pc = "read_gs" /\ Len(wire) = 2)
    /\ Len(wire') > Len(wire) => Len(wire') = Len(wire) + 1
    /\ (rx_pc = "none" /\ rx_pc' # "none") => (pc = "drain_ack" /\ Len(wire) = 3)
    /\ pc = "crashed" => UNCHANGED <<pc, wire, writer, des_cipher, rx_pc, chat_pc>>

\* C17: startup goes in a fixed order: 0x0232 is sent on the login connection,
\* that connection is closed before the game connection is opened, 0x01f7 is
\* sent on the game connection, the crypto session is keyed after the 0x01f9
\* response is decoded, 0x03ed is sent after keying, the receive task is
\* started only after 0x03ed has been sent, and no step follows a failed one.
C17_StartupOrder == []StartupInOrder /\ [][StartupStep]_vars

\* startup is over: the three messages are written, the session is keyed and
\* the receive task runs
C17_Witness ==
    /\ Len(wire) = 3
    /\ des_cipher # NoCipher
    /\ rx_pc = "recv"
    /\ writer = [conn |-> "game", state |-> "open"]
    /\ pc = "sleep"

\* C18: for every 0x01f9 response that parses, whatever the 16 bytes of its
\* key field, the crypto session becomes keyed and 0x03ed is sent.
C18_AnyKeyAccepted ==
    (gs_login_resp # None /\ ~IsExc(gs_login_resp))
        => /\ des_cipher # NoCipher
           /\ WritesOf(1005) # {}

\* a response parsed whose key field holds 7 bytes before its zero bytes: the
\* session is not keyed, nothing was acknowledged, and init has failed
C18_Witness ==
    /\ gs_login_resp # None
    /\ ~IsExc(gs_login_resp)
    /\ Len(gs_login_resp.val.f["des_key"].v) = 7
    /\ des_cipher = NoCipher
    /\ WritesOf(1005) = {}
    /\ pc = "crashed"

\* what does hold: a parsed response whose key field is 8 bytes long once its
\* trailing zero bytes are cut keys the session and is acknowledged
KeyOfEightBytesAccepted ==
    (/\ gs_login_resp # None
     /\ ~IsExc(gs_login_resp)
     /\ Len(gs_login_resp.val.f["des_key"].v) = BlockSize)
        => /\ des_cipher # NoCipher
           /\ WritesOf(1005) # {}

\* C19: the idle transition fires only when at least one byte has been
\* received and the buffer has held at most 4 bytes for more than 3 seconds
\* without interruption.
C19_IdleAfterQuietBuffer ==
    idle_fired # None
        => /\ idle_fired.received > 0
           /\ idle_fired.buffered <= 4
           /\ idle_fired.small_age > IdleSeconds

\* the transition fired right after a frame was removed from a buffer of more
\* than 4 bytes
C19_Witness ==
    /\ idle_fired # None
    /\ idle_fired.small_age = 0
    /\ idle_fired.buffered = 4
    /\ Len(extracted) >= 1
    /\ pc = "drain_notify"

\* what does hold: it fires only after a byte was received, with at most 4
\* bytes buffered, more than 3 seconds after the last read
IdleAfterQuietSocket ==
    idle_fired # None
        => /\ idle_fired.received > 0
           /\ idle_fired.buffered <= 4
           /\ recv_age > IdleSeconds

\* the notifications and the chat polls on the wire are in order
NotifiedInOrder ==
    /\ Cardinality(WritesOf(1016)) <= 1
    /\ Cardinality(WritesOf(1003)) <= 1
    /\ \A i \in WritesOf(1003) : \E j \in WritesOf(1016) : j < i
    /\ \A i \in WritesOf(1068) :
          /\ \E j \in WritesOf(1016) : j < i
          /\ \E j \in WritesOf(1003) : j < i
    /\ chat_pc # "none" => (notified /\ WritesOf(1016) # {} /\ WritesOf(1003) # {})

\* C20: 0x03f8 and 0x03eb are each sent at most once, 0x03f8 first; at most
\* one chat task is ever created; no 0x042c is sent before both were sent.
C20_NotifyOnceThenChat ==
    /\ []NotifiedInOrder
    /\ [][(chat_pc' = "start" /\ chat_pc # "start") => chat_pc = "none"]_vars

\* both notifications and a chat poll have been written, in this order
C20_Witness ==
    /\ Len(wire) = 6
    /\ wire[4].id = 1016
    /\ wire[5].id = 1003
    /\ wire[6].id = 1068
    /\ chat_pc = "drain"
    /\ notified

(***************************************************************************)
(* Properties of the field types.                                          *)
(***************************************************************************)
\* the bytes a value of a sized type stands for: UTF-8 of a str, the bytes themselves
EncodedValue(call) ==
    IF call.op = "SizedString" THEN EncodeUtf8(call.value) ELSE call.value

\* C11: encoding a fixed-size string or byte field whose value is shorter than
\* the declared size gives exactly the declared number of bytes, the value
\* followed by zero bytes; a value longer than the declared size is an error
\* and gives no bytes.
C11_PadOrReject ==
    nat_call.op \in {"SizedString", "SizedBytes", "des_key"} =>
        /\ Len(EncodedValue(nat_call)) < nat_call.size
              => nat_result = Ok(Ljust(EncodedValue(nat_call), nat_call.size))
        /\ Len(EncodedValue(nat_call)) > nat_call.size => IsExc(nat_result)

\* a string of two characters declared with size 3, whose UTF-8 form has four
\* bytes, was accepted and encoded to more bytes than declared
C11_Witness ==
    /\ nat_call.op = "SizedString"
    /\ nat_call.size = 3
    /\ Len(nat_call.value) = 2
    /\ Len(EncodedValue(nat_call)) = 4
    /\ ~IsExc(nat_result)
    /\ Len(nat_result.val) > nat_call.size

\* what does hold: values of one byte per character are padded with zero bytes
\* to the declared size by the sized types, and refused when longer
PadOrRejectSingleByte ==
    (/\ nat_call.op \in {"SizedString", "SizedBytes"}
     /\ \A i \in 1..Len(nat_call.value) : nat_call.value[i] < 128)
        => nat_result = IF Len(nat_call.value) > nat_call.size THEN Raise("ValueError")
                        ELSE Ok(Ljust(nat_call.value, nat_call.size))

\* the index of the first zero byte of b, which holds one
FirstZero(b) == MinOf(ZeroAt(b))

\* C12: decoding a CString from bytes that hold a zero byte gives the bytes
\* before the first zero byte as the string and all the bytes after it, later
\* zero bytes included, as the unknown data; the string, a zero byte and the
\* unknown data together are the original bytes.
C12_CStringKeepsTrailingData ==
    (nat_call.op = "CString" /\ ZeroAt(nat_call.value) # {}) =>
        /\ ~IsExc(nat_result)
        /\ EncodeUtf8(nat_result.val.str) = Take(nat_call.value, FirstZero(nat_call.value) - 1)
        /\ nat_result.val.unknown_data = Drop(nat_call.value, FirstZero(nat_call.value))
        /\ nat_result.val.to_bytes \o nat_result.val.unknown_data = nat_call.value

\* bytes with a second zero byte were decoded, and the unknown data stops there
C12_Witness ==
    /\ nat_call.op = "CString"
    /\ Cardinality(ZeroAt(nat_call.value)) = 2
    /\ nat_call.value[Len(nat_call.value)] # 0
    /\ ~IsExc(nat_result)
    /\ Len(nat_result.val.unknown_data) < Len(nat_call.value) - FirstZero(nat_call.value)

\* what does hold: the string is what precedes the first zero byte, and bytes
\* with a single zero byte are reproduced
CStringUpToSecondZero ==
    (nat_call.op = "CString" /\ ZeroAt(nat_call.value) # {}) =>
        /\ ~IsExc(nat_result)
        /\ EncodeUtf8(nat_result.val.str) = Take(nat_call.value, FirstZero(nat_call.value) - 1)
        /\ Cardinality(ZeroAt(nat_call.value)) = 1
              => nat_result.val.to_bytes \o nat_result.val.unknown_data = nat_call.value


(***************************************************************************)
(* Properties of the chat frame.                                           *)
(***************************************************************************)
\* the i-th record of the frame's tail
RecordBytes(frame, i) ==
    SubSeq(frame.bytes, 16 + (i - 1) * frame.record_len + 1, 16 + i * frame.record_len)

\* the decoded packet holds one message per record, the i-th decoded from the
\* i-th record of the tail
DecodedInOrder ==
    /\ ~IsExc(chat_packet)
    /\ "messages" \in DOMAIN chat_packet.val.f
    /\ Len(chat_packet.val.f["messages"].v) = Len(chat_frame.records)
    /\ \A i \in 1..Len(chat_frame.records) :
          /\ Ok(chat_packet.val.f["messages"].v[i])
                = from_bytes("WorldChatMessage", RecordBytes(chat_frame, i))
          /\ chat_packet.val.f["messages"].v[i].f["player_name"]
                = PyStr(chat_frame.records[i].name)
          /\ chat_packet.val.f["messages"].v[i].f["message"]
                = PyStr(chat_frame.records[i].msg)

\* the handler logged the records from the last to the first
LoggedInReverse ==
    /\ ~IsExc(chat_lines)
    /\ Len(chat_lines.val) = Len(chat_frame.records)
    /\ \A i \in 1..Len(chat_frame.records) :
          chat_lines.val[i] =
             [player_name |-> PyStr(chat_frame.records[Len(chat_frame.records) + 1 - i].name),
              message |-> PyStr(chat_frame.records[Len(chat_frame.records) + 1 - i].msg)]

\* C13, as stated: a 0x03f6 frame whose new_message_count is n >= 1 and whose
\* tail holds n records of 185 bytes decodes to a list of n messages, the i-th
\* decoded from the i-th record, and the handler logs them from last to first.
C13_Records185 ==
    (Len(chat_frame.records) >= 1 /\ chat_frame.record_len = 185) =>
        /\ chat_packet # NotYet => DecodedInOrder
        /\ chat_lines # NotYet => LoggedInReverse

\* C13, amended: a 0x03f6 frame whose new_message_count is n >= 1 and whose
\* tail holds n records of 184 bytes, the size of the record layout, decodes
\* to a list of n messages, the i-th decoded from the i-th record, and the
\* handler logs them from last to first.
C13_RecordsOfLayoutSize ==
    (Len(chat_frame.records) >= 1 /\ chat_frame.record_len = sizeof("WorldChatMessage")) =>
        /\ chat_packet # NotYet => DecodedInOrder
        /\ chat_lines # NotYet => LoggedInReverse

\* a frame of two different 184-byte records was decoded and logged
C13_Witness ==
    /\ Len(chat_frame.records) = 2
    /\ chat_frame.records[1] # chat_frame.records[2]
    /\ chat_frame.record_len = 184
    /\ Len(chat_frame.bytes) = 16 + 2 * 184
    /\ chat_lines # NotYet
    /\ LoggedInReverse
    /\ DecodedInOrder

(***************************************************************************)
(* Errors, shutdown and the lock in the Ready phase.                       *)
(***************************************************************************)
\* the receive task has ended and the shutdown signal is not what ended it:
\* line 105 lets the task end only when the signal is set, so it ended in
\* the except clause of lines 112-115
RxFailed == rx_pc = "done" /\ ~shutdown_set

\* the periodic chat task does not exist or has ended
ChatStopped == chat_pc \in {"none", "done", "cancelled"}

\* C21: when a socket read of the receive task raises in the Ready phase, the
\* task ends and the session then shuts down: the shutdown signal is
\* eventually set, the chat task is stopped and the socket is closed.
C21_ReceiveErrorShutsDown ==
    RxFailed ~> (shutdown_set /\ ChatStopped /\ writer.state = "closed")

\* the receive task has failed and the dispatch loop has gone round since
C21_Witness ==
    /\ RxFailed
    /\ pc = "sleep"
    /\ last_pick # None
    /\ writer = Open("game")

\* the step in which the chat task ends while the shutdown signal is not set:
\* line 118 lets it end only when the signal is set, so it ended in the
\* except clause of lines 125-128
ChatFails == chat_pc' = "done" /\ chat_pc # "done" /\ ~shutdown_set

\* C22: when a send of the chat task raises, only the chat task ends: the
\* shutdown signal is not set, the socket stays open, and the receive task
\* and the dispatch loop are where they were, with the buffer and its lock
\* untouched, so that they go on receiving and dispatching.
C22_ChatErrorEndsChatOnly ==
    [][ChatFails =>
          /\ ~shutdown_set'
          /\ writer' = writer
          /\ writer = Open("game")
          /\ pc' = pc
          /\ pc \in LoopPoints
          /\ rx_pc' = rx_pc
          /\ pending_buffer' = pending_buffer
          /\ lock_holder' = lock_holder
          /\ lock_waiters' = lock_waiters]_vars

\* the chat task has failed, and the dispatch loop has just taken a frame
\* that the receive task appended
C22_Witness ==
    /\ chat_pc = "done"
    /\ ~shutdown_set
    /\ rx_pc = "recv"
    /\ last_pick # None
    /\ last_pick.took
    /\ last_pick.then = "sleep"

\* the attempt of the step just taken removed a frame with a registered
\* identifier, and from_bytes raised on it
DecodeFailed == last_pick # None /\ last_pick.took /\ IsExc(last_pick.packet)

\* C23: when a complete frame with a registered server identifier fails to
\* decode, the error does not leave the dispatch loop: the frame is
\* discarded, the session does not shut down and the loop goes on to its
\* sleep and the next frame.
C23_DecodeErrorDropsFrame ==
    DecodeFailed => (~shutdown_set /\ last_pick.then = "sleep" /\ pc = "sleep")

\* a frame failed to decode while the next complete frame was buffered
\* behind it
C23_Witness ==
    /\ DecodeFailed
    /\ last_pick.after = pending_buffer
    /\ Len(pending_buffer) >= 4
    /\ DeclaredLength(pending_buffer) \in 4..Len(pending_buffer)

\* the receive task is suspended in reader.read
RxInRead == rx_pc = "recv"

\* C24: the buffer lock is never held by a task that is blocked in a socket
\* read, pick_message has left the lock's block when the dispatch loop looks
\* at its result and calls a handler, and handlers are called one at a time:
\* the lines of a handler are logged only in a step of the dispatch loop
\* that took one frame, and the step is over when the next one starts.
C24_LockNotHeldInReadOrHandler ==
    /\ [](RxInRead => lock_holder # "rx" /\ \A i \in 1..Len(lock_waiters) :
                                                lock_waiters[i] # "rx")
    /\ [](pc \in {"read_login", "read_gs"} => lock_holder = "none")
    /\ [](last_pick # None => last_pick.lock_after = "none")
    /\ [][handled' # handled =>
            /\ last_pick' # None
            /\ last_pick'.handler
            /\ last_pick'.took
            /\ last_pick'.lock_after = "none"
            /\ Len(extracted') = Len(extracted) + 1
            /\ rx_pc' = rx_pc
            /\ chat_pc' = chat_pc]_vars

\* the handler of 0x03f6 has just logged a line while the receive task was
\* suspended in its read
C24_Witness ==
    /\ last_pick # None
    /\ last_pick.handler
    /\ ~last_pick.raised
    /\ Len(handled) > 0
    /\ RxInRead
    /\ lock_holder = "none"

\* the states of shutdown, lines 273-289, in their order
ShutdownInOrder ==
    /\ pc = "grace" =>
          /\ shutdown_set
          /\ writer = Open("game")
          /\ rx_pc # "cancelled"
          /\ chat_pc # "cancelled"
    /\ (rx_pc = "cancelled" \/ chat_pc = "cancelled") =>
          shutdown_set /\ pc \in {"wait_closed", "closed"}
    /\ (writer.conn = "game" /\ writer.state # "open") =>
          /\ shutdown_set
          /\ pc \in {"wait_closed", "closed"}
          /\ rx_pc \in {"done", "cancelled"}
          /\ ChatStopped
    /\ pc = "closed" => writer = [conn |-> "game", state |-> "closed"]

\* C25: shutdown proceeds in order: the signal is set first and the grace
\* period starts, the receive task and the chat task are cancelled only when
\* it is over, the socket is closed only after that, and once shutdown has
\* completed the session takes no further step.
C25_ShutdownOrder ==
    /\ []ShutdownInOrder
    /\ [][/\ (shutdown_set' /\ ~shutdown_set) => pc' = "grace"
          /\ (pc' = "wait_closed" /\ pc # "wait_closed") => pc = "grace"
          /\ (pc' = "closed" /\ pc # "closed") => pc = "wait_closed"
          /\ pc # "closed"]_vars

\* shutdown has completed with both tasks cancelled at the end of the grace
\* period
C25_Witness ==
    /\ pc = "closed"
    /\ shutdown_set
    /\ rx_pc = "cancelled"
    /\ chat_pc = "cancelled"
    /\ writer.state = "closed"

\* the attempt of the step just taken found a header and as many bytes as
\* the header declares
FoundCompleteFrame ==
    /\ last_pick # None
    /\ Len(last_pick.before) >= 4
    /\ DeclaredLength(last_pick.before) <= Len(last_pick.before)

\* C26: every pick_message attempt that finds at least 4 buffered bytes and
\* a declared length not above the buffered length leaves the buffer
\* strictly shorter, whatever the declared length, 0 to 3 included.
C26_CompleteFrameShrinksBuffer ==
    FoundCompleteFrame => Len(last_pick.after) < Len(last_pick.before)

\* an attempt found a header that declares fewer than 4 bytes and went
\* through the removal of lines 178-179
C26_Witness ==
    /\ FoundCompleteFrame
    /\ DeclaredLength(last_pick.before) < 4
    /\ last_pick.took
    /\ ~shutdown_set

\* the attempt of the step just taken removed and decoded a 0x03f6 frame
\* that announces no record and ends after its fixed fields
EmptyChatFrameTaken ==
    /\ last_pick # None
    /\ last_pick.took
    /\ DeclaredLength(last_pick.before) = SumSizes(STRUCT_FORMAT("GetWorldChat"))
    /\ ~IsExc(last_pick.packet)
    /\ ~IsNone(last_pick.packet.val)
    /\ last_pick.packet.val.cls = "GetWorldChat"
    /\ last_pick.packet.val.f["new_message_count"].v = 0

\* C27: dispatching a 0x03f6 frame with new_message_count 0 and no tail
\* completes without error: the decoded message list is empty, the handler
\* logs nothing and the session keeps running.
C27_EmptyChatFrameHandled ==
    EmptyChatFrameTaken =>
        /\ "messages" \in DOMAIN last_pick.packet.val.f
        /\ last_pick.packet.val.f["messages"].v = <<>>
        /\ ~last_pick.raised
        /\ last_pick.then = "sleep"
        /\ ~shutdown_set

\* such a frame went to handler_03f6
C27_Witness ==
    /\ EmptyChatFrameTaken
    /\ last_pick.handler
    /\ handled = <<>>

\* C28: no byte the game server sends after its 0x01f9 response is lost: the
\* bytes that login_gs read beyond the response are in the receive buffer
\* when the Ready phase starts, in front of what the receive task reads, and
\* are framed like it.
C28_NoByteLostAfterHandshake ==
    rx_pc # "none" =>
        Concat(extracted) \o pending_buffer \o rx_data
            = gs_extra \o SubSeq(stream, 1, rx_pos)

\* the read of login_gs returned the response and the server's first frame,
\* and the Ready phase has started
C28_Witness ==
    /\ gs_extra # <<>>
    /\ ~IsExc(gs_login_resp)
    /\ rx_pc = "recv"
    /\ pc = "sleep"
    /\ rx_pos = Len(stream)

\* the receive task waits for the lock
RxWaits == rx_pc = "wait_lock"

\* who holds the lock between two steps, and who waits for it: only the
\* dispatch loop holds it across a suspension, in the drain of one of its
\* two sends, and a task waits only while that is so or while the release
\* has woken the first waiter
LockInUse ==
    /\ lock_holder \in {"none", "main"}
    /\ lock_holder = "main" => pc \in {"drain_notify", "drain_active"}
    /\ MainWaiting <=> \E i \in 1..Len(lock_waiters) : lock_waiters[i] = "main"
    /\ RxWaits <=> \E i \in 1..Len(lock_waiters) : lock_waiters[i] = "rx"
    /\ Len(lock_waiters) <= 2
    /\ ~(MainWaiting /\ RxWaits /\ lock_holder # "none")

\* C29: no state has every task blocked on the buffer lock: the dispatch
\* loop holds it only while it drains the initialization-complete and the
\* active message, under every interleaving it is released again, and a
\* task that waits for it gets it (or is cancelled by shutdown).
C29_LockIsReleased ==
    /\ []LockInUse
    /\ (lock_holder # "none" \/ RxWaits \/ MainWaiting)
           ~> (lock_holder = "none" /\ ~RxWaits /\ ~MainWaiting)

\* the receive task waits for the lock that the dispatch loop holds in a
\* drain
C29_Witness ==
    /\ lock_holder = "main"
    /\ pc = "drain_active"
    /\ RxWaits
    /\ rx_data # <<>>

\* C30: once the shutdown signal is set nothing is written to the socket:
\* the chat task tests the signal and writes in one step, with no suspension
\* between the two, and the dispatch loop sends nothing after it has entered
\* shutdown.
C30_NoWriteAfterShutdown ==
    [][shutdown_set => (wire' = wire /\ last_frame' = last_frame /\ tick_count' = tick_count)]_vars

\* the chat task has polled, then found the signal set at the top of its
\* loop and ended, during the grace period
C30_Witness ==
    /\ shutdown_set
    /\ pc = "grace"
    /\ chat_pc = "done"
    /\ tick_count < MaxTicks
    /\ \E i \in 1..Len(wire) : wire[i].id = Registry.attrs["GetSelectChat"].message_id

=============================================================================
